---- MODULE Spec2Model ----
(***************************************************************************)
(* A model of the smartcut cutting engine: the segment planner             *)
(* (smart_cut.make_cut_segments), the video cutter                         *)
(* (video_cutter.VideoCutter), the cut driver (smart_cut.smart_cut), the   *)
(* audio and subtitle cutters (track_cutters) and the index                *)
(* (media_container.MediaContainer).                                       *)
(*                                                                         *)
(* Rational seconds are integers in ticks of 1/10000 s, so                 *)
(* Fraction(1, 10000) is 1 tick and Fraction(1, 1_000_000) is 1/100 tick.  *)
(* An optional value is None or Some(v).  Sequences are 1-based; the       *)
(* source's 0-based indices (p, gop_index) keep their 0-based values and   *)
(* are shifted where a sequence is read.                                   *)
(***************************************************************************)
EXTENDS Integers, Sequences, FiniteSets, TLC

VARIABLES
  \* ---- planner (smart_cut.py) ----
  media_container,     \* the index the planner reads
  raw_segments,        \* smart_cut's positive_segments argument
  positive_segments,   \* adjusted_segment_times, the planner's input
  keyframe_mode,       \* video_settings.mode == KEYFRAMES
  cut_segments,        \* make_cut_segments' result
  plan_pc,             \* "input" -> "adjusted" -> "planned"
  \* ---- video cutter (video_cutter.py) ----
  source,              \* the packets of the source's video stream, in demux order
  video_cutter,        \* the fields of the VideoCutter
  returned,            \* the packets the latest call of the cutter returned
  call,                \* the latest call: its segment and the branch it took
  prev_dts,            \* DTS of the last packet returned before the latest call
  copied_before,       \* gop_index of the copy segment latest before the latest call
  run,                 \* the copy segments that the latest call continues
  cut_pc,              \* "ready", "finished", "hung" or "crashed"
  \* ---- cut driver (smart_cut.smart_cut) ----
  segment_mode,        \* the segment_mode argument
  output_files,        \* the interval of each output file, in order
  file_index,          \* the output file the outer loop is at, from 1
  previously_done_segments,
  files,               \* per output file: its state on disk and the packets muxed
  cancelled,           \* cancel_object.cancelled
  observed,            \* the poll that first saw cancelled, and at which file
  return_value,        \* what smart_cut returned
  drive_pc,            \* where the driver is
  \* ---- audio and subtitle cutters (track_cutters.py) ----
  audio_track,         \* the packets of the audio track in the index
  subtitle_track,      \* the packets of the subtitle track in the index
  track_index,         \* both tables as the index was built
  audio_cutter,        \* the fields of the PassthruAudioCutter
  subtitle_cutter,     \* the fields of the SubtitleCutter
  audio_returned,      \* the packets the latest segment() of the audio cutter returned
  subtitle_returned,   \* the same for the subtitle cutter
  audio_prev,          \* the last packet the audio cutter returned before that call
  subtitle_prev,       \* the same for the subtitle cutter
  track_call,          \* the latest segment and the number of calls so far
  track_pc,            \* "ready" while the cutters are in use
  \* ---- the index (media_container.py) ----
  video_packets,       \* the packets demux yields for the video stream, in order
  codec_name,          \* video_stream.codec_context.name
  opened,              \* the fields MediaContainer.__init__ has set
  frame_time,          \* the latest get_next_frame_time call: its argument and result
  index_pc,            \* "file" -> "indexed"
  \* ---- fetch_frame called GOP by GOP (test_fetch_frame_real.py) ----
  fetched,             \* the frames each call of fetch_frame yielded, call by call
  fetch_pc,            \* "fetching" or "hung"; in a call: where fetch_frame is
  fetch_call,          \* the running call of fetch_frame: arguments and locals
  released             \* the frames that call has yielded, each with the heap it left

planVars == <<media_container, raw_segments, positive_segments, keyframe_mode,
              cut_segments, plan_pc>>

cutVars == <<source, video_cutter, returned, call, prev_dts, copied_before, run, cut_pc>>

driveVars == <<segment_mode, output_files, file_index, previously_done_segments,
               files, cancelled, observed, return_value, drive_pc>>

trackVars == <<audio_track, subtitle_track, track_index, audio_cutter, subtitle_cutter,
               audio_returned, subtitle_returned, audio_prev, subtitle_prev,
               track_call, track_pc>>

\* the variables of the parts that the planner, the video cutter and the
\* driver leave alone
indexVars == <<video_packets, codec_name, opened, frame_time, index_pc>>

fetchVars == <<fetched, fetch_pc, fetch_call, released>>

sideVars == <<trackVars, indexVars, fetchVars>>

\* the generators of an output file with the packets they write to, and the
\* variables of the tracks that only the cutters on their own use
generatorVars == <<video_cutter, audio_cutter, subtitle_cutter, subtitle_track>>
otherTrackVars == <<track_index, audio_returned, subtitle_returned, audio_prev,
                    subtitle_prev, track_call, track_pc>>

vars == <<planVars, cutVars, driveVars, sideVars>>

\* The cutter before a source is opened, and the planner when none runs.
CutterIdle ==
  /\ source = <<>> /\ video_cutter = <<>> /\ returned = <<>> /\ call = <<>>
  /\ prev_dts = <<>> /\ copied_before = <<>> /\ run = <<>> /\ cut_pc = "idle"
PlanIdle ==
  /\ raw_segments = <<>> /\ positive_segments = <<>> /\ keyframe_mode = FALSE
  /\ cut_segments = <<>> /\ plan_pc = "idle"
DriverIdle ==
  /\ segment_mode = FALSE /\ output_files = <<>> /\ file_index = 0
  /\ previously_done_segments = 0 /\ files = <<>> /\ cancelled = FALSE
  /\ observed = <<>> /\ return_value = <<>> /\ drive_pc = "idle"

TracksIdle ==
  /\ audio_track = <<>> /\ subtitle_track = <<>> /\ track_index = <<>>
  /\ audio_cutter = <<>> /\ subtitle_cutter = <<>>
  /\ audio_returned = <<>> /\ subtitle_returned = <<>>
  /\ audio_prev = <<>> /\ subtitle_prev = <<>>
  /\ track_call = <<>> /\ track_pc = "idle"
IndexIdle ==
  /\ video_packets = <<>> /\ codec_name = "" /\ opened = <<>>
  /\ frame_time = <<>> /\ index_pc = "idle"
FetchIdle ==
  fetched = <<>> /\ fetch_pc = "idle" /\ fetch_call = <<>> /\ released = <<>>
SideIdle == TracksIdle /\ IndexIdle /\ FetchIdle

None == <<>>
Some(v) == <<v>>
Val(x) == x[1]

(***************************************************************************)
(* Bounds of the model.                                                    *)
(***************************************************************************)
MaxTime      == 5    \* longest source duration, in ticks
MaxStart     == 1    \* largest container start_time, in ticks
MaxIntervals == 3    \* most keep intervals in one call
MaxGops      == 3    \* most GOPs in the index
AudioStride  == 100000 \* spacing of the time grid of video-less sources (10 s)

(***************************************************************************)
(* Program constants, in ticks.                                            *)
(***************************************************************************)
SnapSeconds == 100000   \* the 10 s a boundary endpoint is moved outside
EndPad      == 1        \* Fraction(1, 10000)
SliceLimit  == 200000   \* while s + 20 < e
SliceLen    == 190000   \* CutSegment(False, s, s + 19); s += 19

\* x <= EPSILON, where EPSILON = Fraction(1, 1_000_000) is 1/100 tick
AtMostEpsilon(x) == 100 * x <= 1

Max(a, b) == IF a >= b THEN a ELSE b
Min(a, b) == IF a <= b THEN a ELSE b

RECURSIVE SortedSeq(_)
SortedSeq(S) ==
  IF S = {} THEN <<>>
  ELSE LET m == CHOOSE x \in S : \A y \in S : x <= y
       IN <<m>> \o SortedSeq(S \ {m})

RECURSIVE SumSeq(_)
SumSeq(q) == IF q = <<>> THEN 0 ELSE Head(q) + SumSeq(Tail(q))

(***************************************************************************)
(* misc_data.CutSegment.  The video-less path leaves the three GOP fields  *)
(* at their default -1.                                                    *)
(***************************************************************************)
CutSegment(rr, s, e, sd, ed, gi) ==
  [require_recode |-> rr, start_time |-> s, end_time |-> e,
   gop_start_dts |-> sd, gop_end_dts |-> ed, gop_index |-> gi]

(***************************************************************************)
(* make_adjusted_segment_times                                             *)
(***************************************************************************)
make_adjusted_segment_times(segs, mc) ==
  [k \in 1..Len(segs) |->
     LET s == IF AtMostEpsilon(segs[k][1]) THEN -SnapSeconds ELSE segs[k][1]
         e == IF AtMostEpsilon(mc.duration - segs[k][2])
              THEN mc.duration + SnapSeconds ELSE segs[k][2]
     IN <<s + mc.start_time, e + mc.start_time>>]

(***************************************************************************)
(* make_cut_segments, video-less path: one interval, clamped to the first  *)
(* audio track and sliced.                                                 *)
(***************************************************************************)
\* The video-less path without the while loop: one segment per interval.
SliceAudio_Unsliced(s, e) == <<CutSegment(FALSE, s, e, -1, -1, -1)>>

RECURSIVE SliceAudio(_, _)
SliceAudio(s, e) ==
  IF s + SliceLimit < e
  THEN <<CutSegment(FALSE, s, s + SliceLen, -1, -1, -1)>> \o SliceAudio(s + SliceLen, e)
  ELSE <<CutSegment(FALSE, s, e, -1, -1, -1)>>

RECURSIVE AudioSegments(_, _, _)
AudioSegments(mc, ps, k) ==
  IF k > Len(ps) THEN <<>>
  ELSE LET min_time == mc.audio_first
           max_time == mc.audio_last + EndPad
           s == Max(ps[k][1], min_time)
           e == Min(ps[k][2], max_time)
       IN SliceAudio(s, e) \o AudioSegments(mc, ps, k + 1)

(***************************************************************************)
(* make_cut_segments, video path.  p is the source's 0-based index into    *)
(* positive_segments.                                                      *)
(***************************************************************************)
source_cutpoints(mc) ==
  mc.gop_start_times_pts_s \o <<mc.start_time + mc.duration + EndPad>>

\* The planner without the loop that passes over the intervals that ended.
SkipEnded_Never(ps, p, i) == p

\* while p < len(positive_segments) and positive_segments[p][1] <= i: p += 1
RECURSIVE SkipEnded(_, _, _)
SkipEnded(ps, p, i) ==
  IF p < Len(ps) /\ ps[p + 1][2] <= i THEN SkipEnded(ps, p + 1, i) ELSE p

\* while p < len(positive_segments) and positive_segments[p][1] < o: append, p += 1
RECURSIVE InsideIntervals(_, _, _, _, _, _)
InsideIntervals(ps, p, o, i_dts, o_dts, gop_idx) ==
  IF p < Len(ps) /\ ps[p + 1][2] < o
  THEN LET rest == InsideIntervals(ps, p + 1, o, i_dts, o_dts, gop_idx)
       IN [p |-> rest.p,
           out |-> <<CutSegment(TRUE, ps[p + 1][1], ps[p + 1][2], i_dts, o_dts, gop_idx)>>
                   \o rest.out]
  ELSE [p |-> p, out |-> <<>>]

\* The tail of the partial-overlap branch, written as the spec's planner
\* table words it: the recode segment runs to the interval's end.
TailSegment_ToIntervalEnd(ps, p, o, i_dts, o_dts, gop_idx) ==
  IF p < Len(ps) /\ ps[p + 1][1] < o
  THEN <<CutSegment(TRUE, ps[p + 1][1], ps[p + 1][2], i_dts, o_dts, gop_idx)>>
  ELSE <<>>

\* if p < len(positive_segments) and positive_segments[p][0] < o: append(.., o, ..)
TailSegment(ps, p, o, i_dts, o_dts, gop_idx) ==
  IF p < Len(ps) /\ ps[p + 1][1] < o
  THEN <<CutSegment(TRUE, ps[p + 1][1], o, i_dts, o_dts, gop_idx)>>
  ELSE <<>>

\* The head of the partial-overlap branch without its p += 1.
HeadSegment_KeepP(ps, p, i, i_dts, o_dts, gop_idx) ==
  IF i > ps[p + 1][1]
  THEN [p |-> p, out |-> <<CutSegment(TRUE, i, ps[p + 1][2], i_dts, o_dts, gop_idx)>>]
  ELSE [p |-> p, out |-> <<>>]

\* if i > positive_segments[p][0]: append(CutSegment(True, i, e_p, ..)); p += 1
HeadSegment(ps, p, i, i_dts, o_dts, gop_idx) ==
  IF i > ps[p + 1][1]
  THEN [p |-> p + 1, out |-> <<CutSegment(TRUE, i, ps[p + 1][2], i_dts, o_dts, gop_idx)>>]
  ELSE [p |-> p, out |-> <<>>]

\* The else branch: partial overlap.
PartialOverlap(ps, p, i, o, i_dts, o_dts, gop_idx) ==
  LET head == HeadSegment(ps, p, i, i_dts, o_dts, gop_idx)
      mid  == InsideIntervals(ps, head.p, o, i_dts, o_dts, gop_idx)
      tail == TailSegment(ps, mid.p, o, i_dts, o_dts, gop_idx)
  IN [p |-> mid.p, out |-> head.out \o mid.out \o tail]

\* One iteration of the for loop over the GOPs in which only keyframe mode
\* copies: a GOP that lies inside a keep interval goes to the else branch.
PlanGop_CopyInKeyframeModeOnly(mc, ps, kf, gop_idx, p0) ==
  LET cps   == source_cutpoints(mc)
      i     == cps[gop_idx + 1]
      o     == cps[gop_idx + 2]
      i_dts == mc.gop_start_times_dts[gop_idx + 1]
      o_dts == mc.gop_end_times_dts[gop_idx + 1]
      p     == SkipEnded(ps, p0, i)
  IN IF p = Len(ps) \/ o <= ps[p + 1][1]
     THEN [p |-> p, out |-> <<>>]
     ELSE IF kf
     THEN [p |-> p, out |-> <<CutSegment(FALSE, i, o, i_dts, o_dts, gop_idx)>>]
     ELSE PartialOverlap(ps, p, i, o, i_dts, o_dts, gop_idx)

\* One iteration of the for loop over the GOPs.
PlanGop(mc, ps, kf, gop_idx, p0) ==
  LET cps   == source_cutpoints(mc)
      i     == cps[gop_idx + 1]
      o     == cps[gop_idx + 2]
      i_dts == mc.gop_start_times_dts[gop_idx + 1]
      o_dts == mc.gop_end_times_dts[gop_idx + 1]
      p     == SkipEnded(ps, p0, i)
  IN IF p = Len(ps) \/ o <= ps[p + 1][1]
     THEN [p |-> p, out |-> <<>>]
     ELSE IF kf \/ (i >= ps[p + 1][1] /\ o <= ps[p + 1][2])
     THEN [p |-> p, out |-> <<CutSegment(FALSE, i, o, i_dts, o_dts, gop_idx)>>]
     ELSE PartialOverlap(ps, p, i, o, i_dts, o_dts, gop_idx)

RECURSIVE PlanGops(_, _, _, _, _)
PlanGops(mc, ps, kf, gop_idx, p) ==
  IF gop_idx >= Len(mc.gop_start_times_pts_s) THEN <<>>
  ELSE LET r == PlanGop(mc, ps, kf, gop_idx, p)
       IN r.out \o PlanGops(mc, ps, kf, gop_idx + 1, r.p)

make_cut_segments(mc, ps, kf) ==
  IF ~mc.has_video THEN AudioSegments(mc, ps, 1)
  ELSE PlanGops(mc, ps, kf, 0, 0)

(***************************************************************************)
(* The planner's inputs.  Keep intervals are ascending and disjoint (they  *)
(* may touch), each with s < e, inside [0, duration].  The GOP table is    *)
(* strictly ascending, starts at the first frame (at start_time or a tick  *)
(* later) and ends before start_time + duration + EndPad.                  *)
(***************************************************************************)
TimePairs(d) == {q \in (0..d) \X (0..d) : q[1] < q[2]}

IntervalLists(d) ==
  UNION {{q \in [1..n -> TimePairs(d)] : \A k \in 1..(n - 1) : q[k][2] <= q[k + 1][1]}
         : n \in 1..MaxIntervals}

GopTables(st, d) ==
  {SortedSeq(S) : S \in {T \in SUBSET (st..(st + d)) :
                           /\ Cardinality(T) \in 1..MaxGops
                           /\ \E x \in T : x \in {st, st + 1} /\ \A y \in T : x <= y}}

ScaleList(q, k) == [n \in 1..Len(q) |-> <<q[n][1] * k, q[n][2] * k>>]

VideoIndex(st, d, G, delay) ==
  [has_video |-> TRUE, start_time |-> st, duration |-> d,
   gop_start_times_pts_s |-> G,
   gop_start_times_dts |-> [k \in 1..Len(G) |-> G[k] - delay],
   gop_end_times_dts |->
     [k \in 1..Len(G) |-> (IF k < Len(G) THEN G[k + 1] ELSE st + d) - delay - 1],
   audio_first |-> 0, audio_last |-> 0]

AudioIndex(d, first, last) ==
  [has_video |-> FALSE, start_time |-> 0, duration |-> d,
   gop_start_times_pts_s |-> <<>>, gop_start_times_dts |-> <<>>,
   gop_end_times_dts |-> <<>>,
   audio_first |-> first, audio_last |-> last]

PlanInit ==
  /\ \E d \in 2..MaxTime :
       \E q \in IntervalLists(d) :
         \/ \E st \in 0..MaxStart, delay \in 0..1 :
              \E G \in GopTables(st, d) :
                /\ media_container = VideoIndex(st, d, G, delay)
                /\ raw_segments = q
                /\ keyframe_mode \in BOOLEAN
         \/ \E first \in 0..1, last \in 1..d :
              /\ first <= last
              /\ media_container = AudioIndex(d * AudioStride, first * AudioStride,
                                              last * AudioStride)
              /\ raw_segments = ScaleList(q, AudioStride)
              /\ keyframe_mode = FALSE
  /\ positive_segments = <<>>
  /\ cut_segments = <<>>
  /\ plan_pc = "input"
  /\ CutterIdle
  /\ DriverIdle
  /\ SideIdle

\* smart_cut, line 108
Adjust ==
  /\ plan_pc = "input"
  /\ positive_segments' = make_adjusted_segment_times(raw_segments, media_container)
  /\ plan_pc' = "adjusted"
  /\ UNCHANGED <<media_container, raw_segments, keyframe_mode, cut_segments>>
  /\ UNCHANGED <<cutVars, driveVars, sideVars>>

\* smart_cut, line 109
Plan ==
  /\ plan_pc = "adjusted"
  /\ cut_segments' = make_cut_segments(media_container, positive_segments, keyframe_mode)
  /\ plan_pc' = "planned"
  /\ UNCHANGED <<media_container, raw_segments, positive_segments, keyframe_mode>>
  /\ UNCHANGED <<cutVars, driveVars, sideVars>>

PlanNext == Adjust \/ Plan

SpecPlan == PlanInit /\ [][PlanNext]_vars

(***************************************************************************)
(*                          The video cutter                               *)
(*                                                                         *)
(* Stream timestamps (pts, dts) are integers in units of the stream's      *)
(* time base; seconds are ticks as above, so pts * in_time_base is a       *)
(* number of ticks.  create_video_output_stream sets the output stream's   *)
(* time base to the input stream's in every branch.                        *)
(***************************************************************************)
in_time_base  == 400000          \* ticks per unit of the input stream (40 s)
out_time_base == in_time_base

GapSeconds  == 1200000   \* diff > 120
SeekSeconds == 300000    \* target_dts - 30 / in_time_base
NoDts       == -100000000   \* the value that stands for a missing DTS
DtsFloor    == -900000      \* DTS below this is treated as absent
BUFFERED_FRAMES_COUNT == 15

\* int(Fraction(a, b)) for b > 0: Python truncates toward zero.
Trunc(a, b) == IF a >= 0 THEN a \div b ELSE -((-a) \div b)

\* A DTS above 1_000_000_000_000.  No timestamp the model computes is that
\* large, so this is the only such value.
GarbageDts == <<0, 0>>

(***************************************************************************)
(* The source's video stream, in demux order.  A GOP is a keyframe packet  *)
(* followed by len - 1 packets; with lead = 1 the keyframe is a CRA and    *)
(* the packet after it a RASL picture shown before it; with nopts the      *)
(* GOP's last packet carries no PTS.  DTS is the packet's position, PTS    *)
(* the display position plus a reorder delay of one.                       *)
(***************************************************************************)
NumGops == 3   \* GOPs in the cutter's source

GopShapes ==
  { [len |-> 1, lead |-> 0, nopts |-> FALSE],
    [len |-> 3, lead |-> 0, nopts |-> FALSE],
    [len |-> 3, lead |-> 1, nopts |-> FALSE],
    [len |-> 3, lead |-> 0, nopts |-> TRUE] }

GopPackets(shape, d) ==
  [j \in 1..shape.len |->
     [dts |-> d + j - 1,
      pts |-> IF shape.nopts /\ j = shape.len THEN None
              ELSE IF shape.lead = 1 /\ j = 1 THEN Some(d + 2)
              ELSE IF shape.lead = 1 /\ j = 2 THEN Some(d + 1)
              ELSE Some(d + j),
      is_keyframe |-> (j = 1),
      leading |-> (shape.lead = 1 /\ j = 2)]]

RECURSIVE SourcePackets(_, _)
SourcePackets(shapes, d) ==
  IF shapes = <<>> THEN <<>>
  ELSE GopPackets(Head(shapes), d) \o SourcePackets(Tail(shapes), d + Head(shapes).len)

\* The DTS of the first packet: 0, or -1 when the reorder delay is taken off
\* a first PTS of 0.
FirstDts == {-1, 0}

Sources == {SourcePackets(sh, d) : sh \in [1..NumGops -> GopShapes], d \in FirstDts}

(***************************************************************************)
(* MediaContainer.__init__: the GOP arrays of a video stream.  Packets     *)
(* without PTS are skipped; every keyframe of these sources is a safe one. *)
(***************************************************************************)
\* the packets the indexing loop does not skip, as positions in src
IndexedPackets(src) == SortedSeq({n \in 1..Len(src) : src[n].pts # None})

\* positions in src of the packets that start a GOP
GopStarts(src) == SelectSeq(IndexedPackets(src), LAMBDA n : src[n].is_keyframe)

\* position in src of the last indexed packet of GOP g (1-based g)
GopLast(src, g) ==
  LET starts == GopStarts(src)
      ip     == IndexedPackets(src)
      before == IF g < Len(starts) THEN {n \in 1..Len(src) : n < starts[g + 1]}
                ELSE 1..Len(src)
      inGop  == {ip[k] : k \in 1..Len(ip)} \cap before
  IN CHOOSE n \in inGop : \A m \in inGop : m <= n

gop_start_times_dts(src) ==
  [g \in 1..Len(GopStarts(src)) |-> src[GopStarts(src)[g]].dts]

gop_end_times_dts(src) ==
  [g \in 1..Len(GopStarts(src)) |-> src[GopLast(src, g)].dts]

\* video_frame_times[video_keyframe_indices]: the sorted PTS array read at
\* the number of indexed packets that precede the keyframe.
gop_start_times_pts_s(src) ==
  LET ip     == IndexedPackets(src)
      sorted == SortedSeq({Val(src[ip[k]].pts) : k \in 1..Len(ip)})
      rank(n) == Cardinality({k \in 1..Len(ip) : ip[k] < n})
  IN [g \in 1..Len(GopStarts(src)) |-> sorted[rank(GopStarts(src)[g]) + 1] * in_time_base]

\* The packets of GOP g (1-based), as positions in src.
GopMembers(src, g) ==
  LET starts == GopStarts(src)
  IN {n \in 1..Len(src) :
        /\ n >= starts[g]
        /\ (g < Len(starts) => n < starts[g + 1])}

\* The leading-pictures pass of the index.
gop_has_rasl(src) ==
  [g \in 1..Len(GopStarts(src)) |-> \E n \in GopMembers(src, g) : src[n].leading]

gop_leading_end_dts(src) ==
  [g \in 1..Len(GopStarts(src)) |->
     LET L == {src[n].dts : n \in {m \in GopMembers(src, g) : src[m].leading}}
     IN IF L = {} THEN None ELSE Some(CHOOSE d \in L : \A e \in L : e <= d)]

\* The index of one source: what the cutter reads of media_container.
IndexOf(src) ==
  [has_video |-> TRUE, start_time |-> gop_start_times_pts_s(src)[1],
   duration |-> Len(src) * in_time_base,
   gop_start_times_pts_s |-> gop_start_times_pts_s(src),
   gop_start_times_dts |-> gop_start_times_dts(src),
   gop_end_times_dts |-> gop_end_times_dts(src),
   gop_has_rasl |-> gop_has_rasl(src),
   gop_leading_end_dts |-> gop_leading_end_dts(src),
   audio_first |-> 0, audio_last |-> 0]

(***************************************************************************)
(* VideoCutter.  self is the record of the cutter's fields; the demuxer    *)
(* is the position demux_pos of the next packet of src that demux_iter     *)
(* hands out (Len(src) + 1 once the stream is read to its end).  A packet  *)
(* in flight is its position in src.                                       *)
(***************************************************************************)
VideoCutter_WithEncoder ==
  [last_dts |-> NoDts,
   segment_start_in_output |-> 0,
   last_remuxed_segment_gop_index |-> None,
   is_first_remuxed_segment |-> TRUE,
   last_fetch_end_dts |-> None,
   enc_codec |-> Some([frames |-> <<>>, sent |-> 0]),
   enc_last_pts |-> -1,
   demux_pos |-> 1,
   demux_saved_packet |-> None,
   frame_buffer |-> <<>>,
   frame_buffer_gop_dts |-> -1,
   fetch_start |-> None,
   frames_seen |-> [released |-> <<>>, submitted |-> <<>>, pending |-> 0]]
VideoCutter ==
  [last_dts |-> NoDts,
   segment_start_in_output |-> 0,
   last_remuxed_segment_gop_index |-> None,
   is_first_remuxed_segment |-> TRUE,
   last_fetch_end_dts |-> None,
   enc_codec |-> None,
   enc_last_pts |-> -1,
   demux_pos |-> 1,
   demux_saved_packet |-> None,
   frame_buffer |-> <<>>,
   frame_buffer_gop_dts |-> -1,
   fetch_start |-> None,
   frames_seen |-> [released |-> <<>>, submitted |-> <<>>, pending |-> 0]]

\* input_av_container.seek(t): the demuxer resumes at the last keyframe
\* packet whose DTS is at most t.
SeekPos(src, t) ==
  LET K == {n \in 1..Len(src) : src[n].is_keyframe /\ src[n].dts <= t}
  IN CHOOSE n \in K : \A m \in K : m <= n

\* The loop of fetch_packet up to its next yield or return.  A seek that
\* lands at or before the packet that asked for it repeats for ever.
RECURSIVE FetchLoop(_, _, _, _)
FetchLoop(src, self, target_dts, end_dts) ==
  IF self.demux_pos > Len(src) THEN [kind |-> "return", packet |-> 0, self |-> self]
  ELSE
    LET n      == self.demux_pos
        in_dts == src[n].dts
        read   == [self EXCEPT !.demux_pos = n + 1]
    IN IF src[n].pts = None \/ in_dts < target_dts
       THEN IF in_dts > 0 /\ (target_dts - in_dts) * in_time_base > GapSeconds
            THEN LET t == Trunc(target_dts * in_time_base - SeekSeconds, in_time_base)
                     k == SeekPos(src, t)
                 IN IF k <= n THEN [kind |-> "hang", packet |-> 0, self |-> read]
                    ELSE FetchLoop(src, [read EXCEPT !.demux_pos = k,
                                                    !.demux_saved_packet = None],
                                   target_dts, end_dts)
            ELSE FetchLoop(src, read, target_dts, end_dts)
       ELSE IF in_dts > end_dts
       THEN [kind |-> "return", packet |-> 0,
             self |-> [read EXCEPT !.demux_saved_packet = Some(n)]]
       ELSE [kind |-> "yield", packet |-> n, self |-> read]

\* fetch_packet if it dropped the saved packet instead of yielding it
FetchStart_DropSaved(src, self, target_dts, end_dts) ==
  FetchLoop(src, [self EXCEPT !.demux_saved_packet = None], target_dts, end_dts)

\* fetch_packet from its first line up to its first yield or return.
FetchStart(src, self, target_dts, end_dts) ==
  IF self.demux_saved_packet # None
  THEN LET n == Val(self.demux_saved_packet)
           saved_dts == src[n].dts
       IN IF saved_dts >= target_dts
          THEN IF saved_dts <= end_dts
               THEN [kind |-> "yield", packet |-> n,
                     self |-> [self EXCEPT !.demux_saved_packet = None]]
               ELSE [kind |-> "return", packet |-> 0, self |-> self]
          ELSE FetchLoop(src, [self EXCEPT !.demux_saved_packet = None],
                         target_dts, end_dts)
  ELSE FetchLoop(src, self, target_dts, end_dts)

\* list(fetch_packet(target_dts, end_dts)): the generator run to its end,
\* from the outcome r of its run up to the first yield or return.
RECURSIVE FetchRest(_, _, _, _)
FetchRest(src, r, target_dts, end_dts) ==
  IF r.kind = "yield"
  THEN [FetchRest(src, FetchLoop(src, r.self, target_dts, end_dts),
                  target_dts, end_dts)
          EXCEPT !.packets = <<r.packet>> \o @]
  ELSE [packets |-> <<>>, self |-> r.self, hang |-> (r.kind = "hang")]

fetch_packet(src, self, target_dts, end_dts) ==
  FetchRest(src, FetchStart(src, self, target_dts, end_dts), target_dts, end_dts)

(***************************************************************************)
(* The decoder returns the frame of a packet when it is given the packet,  *)
(* with the packet's PTS and the stream's time base; decode(None) then has *)
(* nothing to return.  frame_buffer, a heap on pts, is the sequence of its *)
(* frames in pts order.                                                    *)
(***************************************************************************)
Decode(src, n) == [pts |-> Val(src[n].pts), packet |-> n]

HeapPush(buf, f) ==
  LET k == Cardinality({j \in 1..Len(buf) : buf[j].pts <= f.pts})
  IN SubSeq(buf, 1, k) \o <<f>> \o SubSeq(buf, k + 1, Len(buf))

\* The release loop without its test of the number of buffered frames.
ReleaseOne_Eager(buf, current_dts, end_time) ==
  IF buf # <<>>
  THEN IF buf[1].pts <= current_dts
       THEN IF buf[1].pts * in_time_base < end_time THEN "yield" ELSE "return"
       ELSE "break"
  ELSE "exit"

\* One pass of the while loop of lines 762-776: the heap's head is popped and
\* yielded, or the generator returns, or the loop breaks, or its test fails.
ReleaseOne(buf, current_dts, end_time) ==
  IF Len(buf) > BUFFERED_FRAMES_COUNT
  THEN IF buf[1].pts <= current_dts
       THEN IF buf[1].pts * in_time_base < end_time THEN "yield" ELSE "return"
       ELSE "break"
  ELSE "exit"

\* The while loop that releases frames once more than BUFFERED_FRAMES_COUNT
\* are buffered; returned is the return statement inside it.
RECURSIVE ReleaseSafe(_, _, _)
ReleaseSafe(buf, current_dts, end_time) ==
  IF ReleaseOne(buf, current_dts, end_time) = "yield"
  THEN LET m == ReleaseSafe(Tail(buf), current_dts, end_time)
       IN [m EXCEPT !.frames = <<buf[1]>> \o @]
  ELSE [frames |-> <<>>, buf |-> buf,
        returned |-> (ReleaseOne(buf, current_dts, end_time) = "return")]

\* One pass of the final while loop, lines 788-801: the head is yielded.
DrainOne(buf, end_time) == buf # <<>> /\ buf[1].pts * in_time_base < end_time

\* The final while loop: the buffered frames before end_time, in pts order.
RECURSIVE YieldRemaining(_, _)
YieldRemaining(buf, end_time) ==
  IF DrainOne(buf, end_time)
  THEN LET m == YieldRemaining(Tail(buf), end_time)
       IN [m EXCEPT !.frames = <<buf[1]>> \o @]
  ELSE [frames |-> <<>>, buf |-> buf]

\* The for loop of fetch_frame over fetch_packet(start_dts, gop_end_dts),
\* from the outcome r of fetch_packet's run up to its next yield or return.
RECURSIVE FetchFrameLoop(_, _, _, _, _, _, _)
RECURSIVE FetchFrameBody(_, _, _, _, _, _, _, _)
FetchFrameLoop(src, r, start_dts, gop_start_dts, gop_end_dts, end_time, collect) ==
  IF r.kind # "yield"
  THEN [frames |-> <<>>, collected |-> <<>>, self |-> r.self,
        hang |-> (r.kind = "hang"), returned |-> FALSE]
  ELSE FetchFrameBody(src, r,
         ReleaseSafe(HeapPush(r.self.frame_buffer, Decode(src, r.packet)),
                     src[r.packet].dts, end_time),
         start_dts, gop_start_dts, gop_end_dts, end_time, collect)

\* The body of the loop for the packet that fetch_packet yielded, once its
\* frame is pushed and the frames that are safe are released (rel).
FetchFrameBody(src, r, rel, start_dts, gop_start_dts, gop_end_dts, end_time, collect) ==
  LET n   == r.packet
      got == IF collect /\ src[n].dts >= gop_start_dts /\ ~src[n].leading
             THEN <<n>> ELSE <<>>
      s1  == [r.self EXCEPT !.frame_buffer = rel.buf]
  IN IF rel.returned
     THEN [frames |-> rel.frames, collected |-> got, self |-> s1,
           hang |-> FALSE, returned |-> TRUE]
     ELSE [FetchFrameLoop(src, FetchLoop(src, s1, start_dts, gop_end_dts),
                          start_dts, gop_start_dts, gop_end_dts, end_time, collect)
             EXCEPT !.frames = rel.frames \o @, !.collected = got \o @]

\* fetch_frame after its for loop: the final while loop, unless the for
\* loop returned.
FetchFrameEnd(loop, rest) ==
  IF loop.hang \/ loop.returned
  THEN [frames |-> loop.frames, collected |-> loop.collected,
        self |-> loop.self, hang |-> loop.hang]
  ELSE [frames |-> loop.frames \o rest.frames, collected |-> loop.collected,
        self |-> [loop.self EXCEPT !.frame_buffer = rest.buf], hang |-> FALSE]

FetchFrameFinal(loop, end_time) ==
  FetchFrameEnd(loop, YieldRemaining(loop.self.frame_buffer, end_time))

\* A fetch_frame that takes every call for the continuation of the last.
continuous_Always(self, gop_start_dts, gop_end_dts) == TRUE

\* line 712
continuous(self, gop_start_dts, gop_end_dts) ==
  /\ self.last_fetch_end_dts # None
  /\ Val(self.last_fetch_end_dts) \in {gop_end_dts, gop_start_dts}

\* fetch_frame, lines 711-735: what is done before the first packet is asked
\* for.  fetch_start keeps, of the latest call, the arguments, the
\* last_fetch_end_dts and the heap it found, and which of flush_buffers(),
\* frame_buffer = [] and seek() it ran.
FetchFrameStart(self, gop_start_dts, gop_end_dts, decoder_priming_dts) ==
  LET cont == continuous(self, gop_start_dts, gop_end_dts)
      start_dts == IF cont THEN gop_start_dts
                   ELSE IF decoder_priming_dts # None THEN Val(decoder_priming_dts)
                   ELSE gop_start_dts
      reset == self.frame_buffer_gop_dts # gop_start_dts /\ ~cont
      seek  == start_dts < gop_start_dts /\ ~cont
  IN [continuous |-> cont, start_dts |-> start_dts, reset |-> reset, seek |-> seek,
      self |-> [self EXCEPT
                  !.last_fetch_end_dts = Some(gop_end_dts),
                  !.frame_buffer = IF reset \/ seek THEN <<>> ELSE @,
                  !.frame_buffer_gop_dts = IF reset THEN gop_start_dts ELSE @,
                  !.fetch_start =
                     Some([gop_start_dts |-> gop_start_dts, gop_end_dts |-> gop_end_dts,
                           last_fetch_end_dts |-> self.last_fetch_end_dts,
                           frame_buffer |-> self.frame_buffer,
                           frame_buffer_gop_dts |-> self.frame_buffer_gop_dts,
                           start_dts |-> start_dts,
                           demux_from |-> self.demux_pos,
                           saved_packet |-> self.demux_saved_packet,
                           flushed |-> reset \/ seek,
                           cleared |-> reset \/ seek,
                           sought |-> seek])]]

\* A seek that leaves the demuxer where it stands.
SeekPos_Stay(src, self, t) == self.demux_pos

\* input_av_container.seek(start_dts) and the new demux iterator: the
\* position the next packet is read from
SeekTo(src, self, t) == SeekPos(src, t)

\* lines 724-733: the seek to the priming GOP.  fetch_start keeps the position
\* the demuxer reads from and the saved packet as the call begins to read.
FetchFrameSeek(src, st) ==
  IF st.seek
  THEN [st.self EXCEPT !.demux_saved_packet = None,
                       !.demux_pos = SeekTo(src, st.self, st.start_dts),
                       !.fetch_start =
                          Some([Val(@) EXCEPT !.demux_from = SeekTo(src, st.self, st.start_dts),
                                              !.saved_packet = None])]
  ELSE st.self

FetchFrameFrom(src, st, gop_start_dts, gop_end_dts, end_time, collect) ==
  FetchFrameFinal(
    FetchFrameLoop(src, FetchStart(src, FetchFrameSeek(src, st), st.start_dts, gop_end_dts),
                   st.start_dts, gop_start_dts, gop_end_dts, end_time, collect),
    end_time)

fetch_frame(src, self, gop_start_dts, gop_end_dts, end_time, decoder_priming_dts, collect) ==
  FetchFrameFrom(src, FetchFrameStart(self, gop_start_dts, gop_end_dts, decoder_priming_dts),
                 gop_start_dts, gop_end_dts, end_time, collect)

(***************************************************************************)
(* The encoder.  enc_codec is None or Some of the frames it was given (by  *)
(* their pts, which recode_segment keeps strictly increasing) and the      *)
(* number of packets it has returned.  It codes I B P B P ... and returns  *)
(* packets in decode order, each P before the B shown ahead of it, and it  *)
(* holds back EncDelay frames of lookahead until it is flushed.  The DTS   *)
(* it assigns lags the PTS by one frame.  The packets of a flush carry     *)
(* that DTS, no DTS, or a value above 10^12, as FlushDts lists.            *)
(***************************************************************************)
EncDelay == 1

FlushDts == {"valid", "absent", "garbage"}

\* the frame a packet needs to have been submitted before it can be coded
EncNeeds(k) == IF k = 1 THEN 1 ELSE IF k % 2 = 0 THEN k + 1 ELSE k

\* the k-th packet in decode order of an encoder that was given frames
EncPacket(frames, k, dts_kind) ==
  LET n == Len(frames)
      shown == IF k = 1 THEN 1
               ELSE IF k % 2 = 0 THEN (IF k + 1 <= n THEN k + 1 ELSE k)
               ELSE k - 1
      dts == IF k = 1 THEN frames[1] - 1 ELSE frames[k - 1]
  IN [pts |-> Some(frames[shown]),
      dts |-> CASE dts_kind = "valid" -> Some(dts)
                [] dts_kind = "absent" -> None
                [] dts_kind = "garbage" -> GarbageDts,
      packet |-> 0]

\* enc_codec.encode(frame)
Encode(enc, pts) ==
  LET frames == Append(enc.frames, pts)
      ready  == {k \in (enc.sent + 1)..Len(frames) : EncNeeds(k) + EncDelay <= Len(frames)}
      last   == IF ready = {} THEN enc.sent ELSE CHOOSE k \in ready : \A j \in ready : j <= k
  IN [enc |-> [frames |-> frames, sent |-> last],
      packets |-> [j \in 1..(last - enc.sent) |-> EncPacket(frames, enc.sent + j, "valid")]]

\* enc_codec.encode(): the flush
EncodeFlush(enc, dts_kind) ==
  [j \in 1..(Len(enc.frames) - enc.sent) |-> EncPacket(enc.frames, enc.sent + j, dts_kind)]

_ensure_enc_codec(self) ==
  IF self.enc_codec # None THEN self
  ELSE [self EXCEPT !.enc_last_pts = -1,
                    !.enc_codec = Some([frames |-> <<>>, sent |-> 0])]

\* A flush that returns nothing and leaves the encoder as it is.
flush_encoder_Skipped(self, dts_kind) == [self |-> self, packets |-> <<>>]

flush_encoder(self, dts_kind) ==
  IF self.enc_codec = None THEN [self |-> self, packets |-> <<>>]
  ELSE [self |-> [self EXCEPT !.enc_codec = None],
        packets |-> EncodeFlush(Val(self.enc_codec), dts_kind)]

\* frame.pts <= enc_last_pts -> enc_last_pts + 1, then encode(frame), for
\* each of the frames, whose pts are already in output units.
RECURSIVE EncodeFrames(_, _)
EncodeFrames(self, ptss) ==
  IF ptss = <<>> THEN [self |-> self, packets |-> <<>>, hang |-> FALSE]
  ELSE LET pts == IF Head(ptss) <= self.enc_last_pts THEN self.enc_last_pts + 1
                  ELSE Head(ptss)
           e   == Encode(Val(self.enc_codec), pts)
           m   == EncodeFrames([self EXCEPT !.enc_last_pts = pts,
                                            !.enc_codec = Some(e.enc)], Tail(ptss))
       IN [m EXCEPT !.packets = e.packets \o @]

\* The three assignments to frame.pts in recode_segment.
RecodePts(pts, s, segment_start_in_output) ==
  LET p1 == Trunc(pts * in_time_base - s.start_time, in_time_base)
      p2 == Trunc(p1 * in_time_base, out_time_base)
  IN Trunc(p2 * out_time_base + segment_start_in_output, out_time_base)

\* the frames the loop of recode_segment sees before its break
RECURSIVE BeforeBreak(_, _)
BeforeBreak(frames, end_time) ==
  IF frames = <<>> \/ Head(frames).pts * in_time_base >= end_time THEN <<>>
  ELSE <<Head(frames)>> \o BeforeBreak(Tail(frames), end_time)

\* The loop of recode_segment without its test against start_time.
FramesToEncode_NoStartTest(frames, s) == BeforeBreak(frames, s.end_time)

\* lines 477-480: the frames that get past the continue and come before the
\* break
FramesToEncode(frames, s) ==
  SelectSeq(BeforeBreak(frames, s.end_time),
            LAMBDA fr : fr.pts * in_time_base >= s.start_time)

\* the frames the encoder has been given and has returned no packet for
Pending(self) ==
  IF self.enc_codec = None THEN 0
  ELSE Len(Val(self.enc_codec).frames) - Val(self.enc_codec).sent

\* lines 482-496 for the frames kept.  frames_seen keeps, of the latest call
\* that decoded, the frames fetch_frame yielded, those given to the encoder
\* and the number of frames the encoder held when the call began.
RecodeKept(self, s, f, kept) ==
  [EncodeFrames([f.self EXCEPT !.frames_seen =
                                  [released |-> f.frames, submitted |-> kept,
                                   pending |-> Pending(self)]],
                [j \in 1..Len(kept) |->
                   RecodePts(kept[j].pts, s, self.segment_start_in_output)])
     EXCEPT !.hang = f.hang]

\* The loop of recode_segment over the frames f that fetch_frame yields.
RecodeFrames(self, s, f) == RecodeKept(self, s, f, FramesToEncode(f.frames, s))

recode_segment(src, mc, self, s) ==
  LET decoder_priming_dts ==
        IF s.gop_index > 0 /\ s.gop_index < Len(mc.gop_has_rasl)
           /\ mc.gop_has_rasl[s.gop_index + 1]
        THEN Some(mc.gop_start_times_dts[s.gop_index])
        ELSE None
  IN RecodeFrames(self, s,
       fetch_frame(src, _ensure_enc_codec(self), s.gop_start_dts, s.gop_end_dts,
                   s.end_time, decoder_priming_dts, FALSE))

\* int((v - segment_start_pts) * in_time_base / out_time_base + segment_start_offset)
Rebase(v, segment_start_pts, segment_start_in_output) ==
  Trunc((v - segment_start_pts) * in_time_base + segment_start_in_output, out_time_base)

\* The body of the remux loop: the packet at position n of src with its
\* timestamps moved into the output; the bitstream filter passes it on.
RemuxPacket(src, n, s, segment_start_in_output) ==
  LET segment_start_pts == Trunc(s.start_time, in_time_base)
  IN [pts |-> Some(Rebase(Val(src[n].pts), segment_start_pts, segment_start_in_output)),
      dts |-> Some(Rebase(src[n].dts, segment_start_pts, segment_start_in_output)),
      packet |-> n]

\* the loop of remux_segment over the packets f that fetch_packet yields
RemuxPackets(src, self, s, f) ==
  [self |-> f.self,
   packets |-> [j \in 1..Len(f.packets) |->
                  RemuxPacket(src, f.packets[j], s, self.segment_start_in_output)],
   hang |-> f.hang]

remux_segment(src, self, s) ==
  RemuxPackets(src, self, s, fetch_packet(src, self, s.gop_start_dts, s.gop_end_dts))

\* _should_hybrid_recode_cra if it looked for a discontinuity only before
\* the first copied segment
_should_hybrid_recode_cra_FirstOnly(mc, self, s) ==
  IF s.gop_index < 0 \/ s.gop_index >= Len(mc.gop_has_rasl) THEN FALSE
  ELSE IF ~mc.gop_has_rasl[s.gop_index + 1] THEN FALSE
  ELSE self.is_first_remuxed_segment /\ s.gop_index > 0

_should_hybrid_recode_cra(mc, self, s) ==
  IF s.gop_index < 0 \/ s.gop_index >= Len(mc.gop_has_rasl) THEN FALSE
  ELSE IF ~mc.gop_has_rasl[s.gop_index + 1] THEN FALSE
  ELSE \/ self.is_first_remuxed_segment /\ s.gop_index > 0
       \/ /\ self.last_remuxed_segment_gop_index # None
          /\ s.gop_index > Val(self.last_remuxed_segment_gop_index) + 1

\* leading_frames.sort(key = pts)
RECURSIVE SortFrames(_)
SortFrames(frames) ==
  IF frames = <<>> THEN <<>> ELSE HeapPush(SortFrames(Tail(frames)), Head(frames))

\* The leading frames if the frames of the priming GOP were not taken out.
LeadingFrames_WithPriming(frames, gop_start_time, cra_pts) ==
  SortFrames(SelectSeq(frames, LAMBDA fr : fr.pts < cra_pts))

\* lines 589-595: leading_frames, sorted
LeadingFrames(frames, gop_start_time, cra_pts) ==
  SortFrames(SelectSeq(frames, LAMBDA fr :
               fr.pts * in_time_base >= gop_start_time /\ fr.pts < cra_pts))

\* "Fix encoder DTS" of the hybrid path
HybridDts(pk) ==
  IF pk.dts = None \/ pk.dts = GarbageDts THEN [pk EXCEPT !.dts = pk.pts] ELSE pk

\* The end of hybrid_recode_cra_segment: the encoded leading frames, then
\* the CRA packet and the packets after the leading pictures, remuxed.
HybridRemux(src, self, s, f, encoded, trailing) ==
  LET remux_packets == f.collected \o trailing.packets
  IN [self |-> trailing.self,
      packets |-> [j \in 1..Len(encoded) |-> HybridDts(encoded[j])]
                  \o [j \in 1..Len(remux_packets) |->
                        RemuxPacket(src, remux_packets[j], s,
                                    self.segment_start_in_output)],
      hang |-> trailing.hang, crash |-> FALSE]

\* ... from the flush of the encoder (fl) that coded the leading frames (e)
HybridFlushed(src, self, s, f, e, fl, leading_end_dts) ==
  HybridRemux(src, self, s, f, e.packets \o fl.packets,
              fetch_packet(src, fl.self, leading_end_dts, s.gop_end_dts))

HybridEncoded(src, self, s, dts_kind, f, e, leading_end_dts) ==
  HybridFlushed(src, self, s, f, e, flush_encoder(e.self, dts_kind), leading_end_dts)

\* ... from the frames f fetched up to the end of the leading pictures.
\* crash is a failed assertion of the function.
HybridFrames(src, mc, self, s, dts_kind, f, leading_end_dts) ==
  LET segment_start_pts == Trunc(s.start_time, in_time_base)
      cra_pts == Val(src[f.collected[1]].pts)
      gop_start_time == mc.gop_start_times_pts_s[s.gop_index + 1]
      leading_frames == LeadingFrames(f.frames, gop_start_time, cra_pts)
  IN IF f.hang \/ f.collected = <<>>
     THEN [self |-> f.self, packets |-> <<>>, hang |-> f.hang, crash |-> ~f.hang]
     ELSE HybridEncoded(src, self, s, dts_kind, f,
            EncodeFrames([f.self EXCEPT !.frames_seen =
                                          [released |-> f.frames,
                                           submitted |-> leading_frames,
                                           pending |-> Pending(self)]],
                         [j \in 1..Len(leading_frames) |->
                           Rebase(leading_frames[j].pts, segment_start_pts,
                                  self.segment_start_in_output)]),
            leading_end_dts)

hybrid_recode_cra_segment(src, mc, self, s, dts_kind) ==
  LET leading_end_dts == mc.gop_leading_end_dts[s.gop_index + 1]
      decoder_priming_dts ==
        IF s.gop_index > 0 THEN Some(mc.gop_start_times_dts[s.gop_index]) ELSE None
  IN IF leading_end_dts = None
     THEN [self |-> self, packets |-> <<>>, hang |-> FALSE, crash |-> TRUE]
     ELSE HybridFrames(src, mc, self, s, dts_kind,
            fetch_frame(src, _ensure_enc_codec(self), s.gop_start_dts,
                        Val(leading_end_dts), s.end_time, decoder_priming_dts, TRUE),
            Val(leading_end_dts))

\* The PTS of a repaired packet if it were always set to the DTS.
RaisedPts_ToDts(pts, d) == Some(d)

\* lines 369-370: a PTS below the DTS is raised to it
RaisedPts(pts, d) == IF pts # None /\ Val(pts) < d THEN Some(d) ELSE pts

\* The fallback if it never took the PTS.
FallbackDts_AlwaysNext(last_dts, pts_value) == last_dts + 1

\* lines 377-383: the DTS given to a packet that has none
FallbackDts(last_dts, pts_value) ==
  IF last_dts < 0 THEN pts_value ELSE last_dts + 1

\* _fix_packet_timestamps if it raised a DTS only when below last_dts
_fix_packet_timestamps_AllowEqual(last_dts, packet) ==
  LET dts == IF /\ packet.dts # None
                /\ (packet.dts = GarbageDts \/ Val(packet.dts) < DtsFloor)
             THEN None ELSE packet.dts
  IN IF dts # None
     THEN LET d == IF Val(dts) < last_dts THEN last_dts + 1 ELSE Val(dts)
          IN [packet |-> [packet EXCEPT
                            !.dts = Some(d),
                            !.pts = RaisedPts(packet.pts, d)],
              last_dts |-> d]
     ELSE LET pts_value == IF packet.pts # None THEN Val(packet.pts) ELSE 0
              d == FallbackDts(last_dts, pts_value)
          IN [packet |-> [packet EXCEPT !.dts = Some(d)], last_dts |-> d]

\* _fix_packet_timestamps: the packet as it is returned, and last_dts
_fix_packet_timestamps(last_dts, packet) ==
  LET dts == IF /\ packet.dts # None
                /\ (packet.dts = GarbageDts \/ Val(packet.dts) < DtsFloor)
             THEN None ELSE packet.dts
  IN IF dts # None
     THEN LET d == IF Val(dts) <= last_dts THEN last_dts + 1 ELSE Val(dts)
          IN [packet |-> [packet EXCEPT
                            !.dts = Some(d),
                            !.pts = RaisedPts(packet.pts, d)],
              last_dts |-> d]
     ELSE LET pts_value == IF packet.pts # None THEN Val(packet.pts) ELSE 0
              d == FallbackDts(last_dts, pts_value)
          IN [packet |-> [packet EXCEPT !.dts = Some(d)], last_dts |-> d]

\* for packet in packets: self._fix_packet_timestamps(packet)
RECURSIVE FixPackets(_, _)
FixPackets(self, packets) ==
  IF packets = <<>>
  THEN [self |-> self, packets |-> <<>>, path |-> "none", hang |-> FALSE, crash |-> FALSE]
  ELSE LET r == _fix_packet_timestamps(self.last_dts, Head(packets))
           m == FixPackets([self EXCEPT !.last_dts = r.last_dts], Tail(packets))
       IN [m EXCEPT !.packets = <<r.packet>> \o @]

\* segment() if the position in the output moved on for recoded segments only
SegmentReturn_CopyStays(cut_segment, r) ==
  IF r.hang \/ r.crash
  THEN [self |-> r.self, packets |-> <<>>, path |-> r.path,
        hang |-> r.hang, crash |-> r.crash]
  ELSE [FixPackets([r.self EXCEPT !.segment_start_in_output =
                      IF r.path = "recode"
                      THEN @ + cut_segment.end_time - cut_segment.start_time ELSE @],
                   r.packets)
          EXCEPT !.path = r.path]

\* segment() after the branch it took has returned r: the output position
\* moves on and the packets are repaired.  A call that hangs or fails an
\* assertion returns nothing.
SegmentReturn(cut_segment, r) ==
  IF r.hang \/ r.crash
  THEN [self |-> r.self, packets |-> <<>>, path |-> r.path,
        hang |-> r.hang, crash |-> r.crash]
  ELSE [FixPackets([r.self EXCEPT !.segment_start_in_output =
                      @ + cut_segment.end_time - cut_segment.start_time],
                   r.packets)
          EXCEPT !.path = r.path]

\* the result x of a branch of segment(), named; the copy branches record
\* the GOP they copied
Recoded(x) ==
  [self |-> x.self, packets |-> x.packets,
   hang |-> x.hang, crash |-> FALSE, path |-> "recode"]

Copied(x, flushed, cut_segment, path) ==
  [self |-> [x.self EXCEPT
               !.last_remuxed_segment_gop_index = Some(cut_segment.gop_index),
               !.is_first_remuxed_segment = FALSE],
   packets |-> flushed \o x.packets,
   hang |-> x.hang, crash |-> (path = "hybrid" /\ x.crash), path |-> path]

RemuxFlushed(src, fl, cut_segment) ==
  Copied(remux_segment(src, fl.self, cut_segment), fl.packets, cut_segment, "remux")

\* VideoCutter.segment.  path names the branch taken.
segment(src, mc, self, cut_segment, dts_kind) ==
  SegmentReturn(cut_segment,
    IF cut_segment.require_recode
    THEN Recoded(recode_segment(src, mc, self, cut_segment))
    ELSE IF _should_hybrid_recode_cra(mc, self, cut_segment)
    THEN Copied(hybrid_recode_cra_segment(src, mc, self, cut_segment, dts_kind),
                <<>>, cut_segment, "hybrid")
    ELSE RemuxFlushed(src, flush_encoder(self, dts_kind), cut_segment))

\* VideoCutter.finish
finish(self, dts_kind) ==
  LET fl == flush_encoder(self, dts_kind)
  IN FixPackets(fl.self, fl.packets)

(***************************************************************************)
(* The cutter under the driver's calls.  smart_cut passes the segments of  *)
(* make_cut_segments to segment() in order, then calls finish().  The      *)
(* planner's segments ascend without overlap; a copy segment is one whole  *)
(* GOP, a recode segment lies inside one GOP.  NextSegments lists the      *)
(* segments that may follow the latest one: the copy of a later GOP, or    *)
(* the head (one frame and a half) or the rest of a GOP, recoded, or its   *)
(* end from half a frame after its second frame, which leaves a gap after  *)
(* the head.                                                               *)
(***************************************************************************)
NoSegment == CutSegment(FALSE, 0, 0, -1, -1, -1)

GopSegment(mc, g, rr, a, b) ==
  CutSegment(rr, a, b, mc.gop_start_times_dts[g + 1], mc.gop_end_times_dts[g + 1], g)

RecodeRanges(G, E) ==
  LET h == in_time_base \div 2
  IN {q \in {<<G, G + h>>, <<G + h, E>>, <<G + 3 * h, E>>} : q[1] < q[2]}

NextSegments(mc, latest) ==
  LET cps == source_cutpoints(mc)
      gops == 0..(Len(mc.gop_start_times_dts) - 1)
  IN {GopSegment(mc, g, FALSE, cps[g + 1], cps[g + 2]) :
        g \in {x \in gops : x > latest.gop_index}}
     \cup UNION {{GopSegment(mc, g, TRUE, ab[1], ab[2]) :
                    ab \in {q \in RecodeRanges(cps[g + 1], cps[g + 2]) :
                              q[1] >= latest.end_time}} :
                 g \in {x \in gops : x > latest.gop_index
                                     \/ (x = latest.gop_index /\ latest.require_recode)}}

\* The kinds of DTS the flush of a call can give: one when the call is of
\* recode_segment, which does not flush.
FlushChoices(s) == IF s.require_recode THEN {"valid"} ELSE FlushDts

\* s is a copy segment that the cutter in state self takes without the
\* hybrid recode
PlainCopy(mc, self, s) == ~s.require_recode /\ ~_should_hybrid_recode_cra(mc, self, s)

\* DTS of the last packet of those returned so far
LastDts(before, pkts) == IF pkts = <<>> THEN before ELSE pkts[Len(pkts)].dts

CutterInit ==
  /\ source \in Sources
  /\ media_container = IndexOf(source)
  /\ PlanIdle
  /\ DriverIdle
  /\ SideIdle
  /\ video_cutter = VideoCutter
  /\ returned = <<>>
  /\ call = [op |-> "none", segment |-> NoSegment, path |-> "none", flush_dts |-> "valid",
             copies_only |-> TRUE]
  /\ prev_dts = None
  /\ copied_before = None
  /\ run = <<>>
  /\ cut_pc = "ready"

\* smart_cut, lines 178-190: generator.segment(s), one call
Segment ==
  /\ cut_pc = "ready"
  /\ \E s \in NextSegments(media_container, call.segment) :
     \E dts_kind \in FlushChoices(s) :
     \E r \in {segment(source, media_container, video_cutter, s, dts_kind)} :
          /\ video_cutter' = r.self
          /\ returned' = r.packets
          /\ call' = [op |-> "segment", segment |-> s, path |-> r.path,
                       flush_dts |-> IF \E j \in 1..Len(r.packets) : r.packets[j].packet = 0
                                     THEN dts_kind ELSE "valid",
                       copies_only |-> call.copies_only /\ PlainCopy(media_container, video_cutter, s)]
          /\ cut_pc' = IF r.hang THEN "hung" ELSE IF r.crash THEN "crashed" ELSE "ready"
          /\ run' = IF r.path # "remux" THEN <<>>
                    ELSE IF /\ run # <<>>
                            /\ run[Len(run)].segment.gop_index = s.gop_index - 1
                    THEN Append(run, [segment |-> s, packets |-> r.packets])
                    ELSE <<[segment |-> s, packets |-> r.packets]>>
  /\ prev_dts' = LastDts(prev_dts, returned)
  /\ copied_before' = IF call.op = "segment" /\ ~call.segment.require_recode
                      THEN Some(call.segment.gop_index) ELSE copied_before
  /\ UNCHANGED <<source, planVars, driveVars, sideVars>>

\* smart_cut, lines 194-198: generator.finish()
Finish ==
  /\ cut_pc = "ready"
  /\ \E dts_kind \in FlushDts :
     \E r \in {finish(video_cutter, dts_kind)} :
          /\ video_cutter' = r.self
          /\ returned' = r.packets
          /\ call' = [op |-> "finish", segment |-> call.segment, path |-> "finish",
                       flush_dts |-> IF r.packets # <<>> THEN dts_kind ELSE "valid",
                       copies_only |-> call.copies_only]
  /\ cut_pc' = "finished"
  /\ run' = <<>>
  /\ prev_dts' = LastDts(prev_dts, returned)
  /\ copied_before' = IF call.op = "segment" /\ ~call.segment.require_recode
                      THEN Some(call.segment.gop_index) ELSE copied_before
  /\ UNCHANGED <<source, planVars, driveVars, sideVars>>

CutterNext == Segment \/ Finish

SpecCutter == CutterInit /\ [][CutterNext]_vars

(***************************************************************************)
(* Properties of the planner.                                              *)
(***************************************************************************)
Planned == plan_pc = "planned"

GopCount == Len(media_container.gop_start_times_pts_s)

SegIndices == 1..Len(cut_segments)

\* The segment's times against the GOP it is tagged with.
WholeGop(c) ==
  LET cps == source_cutpoints(media_container)
  IN c.start_time = cps[c.gop_index + 1] /\ c.end_time = cps[c.gop_index + 2]

InsideGop(c) ==
  LET cps == source_cutpoints(media_container)
  IN cps[c.gop_index + 1] <= c.start_time /\ c.end_time <= cps[c.gop_index + 2]

TaggedWithGop(c) ==
  /\ c.gop_index \in 0..(GopCount - 1)
  /\ c.gop_start_dts = media_container.gop_start_times_dts[c.gop_index + 1]
  /\ c.gop_end_dts = media_container.gop_end_times_dts[c.gop_index + 1]

\* C3: every segment planned for a source with video is a copy segment over
\* exactly one whole GOP, or a recode segment inside one GOP and not the
\* whole of it; it carries that GOP's index and DTS bounds.
C3_SegmentIsWholeGopCopyOrInsideGopRecode ==
  (Planned /\ media_container.has_video) =>
    \A k \in SegIndices :
      LET c == cut_segments[k]
      IN /\ TaggedWithGop(c)
         /\ IF c.require_recode THEN InsideGop(c) /\ ~WholeGop(c) ELSE WholeGop(c)

\* A plan in smartcut mode that holds a copy segment and a recode segment.
C3_Witness ==
  /\ Planned /\ media_container.has_video /\ ~keyframe_mode
  /\ \E k \in SegIndices : ~cut_segments[k].require_recode
  /\ \E k \in SegIndices : cut_segments[k].require_recode

\* C4: every planned segment has start_time < end_time, with or without a
\* video stream (the driver's assertion, smart_cut.py line 186).
C4_EverySegmentNonEmpty ==
  Planned => \A k \in SegIndices :
               cut_segments[k].start_time < cut_segments[k].end_time

\* The points at which membership in the two unions is compared: the whole
\* span of the GOP table and one tick either side.  Every endpoint is a whole
\* number of ticks, so the unions agree iff they agree at these points and no
\* segment leaves the span.
SpanStart == source_cutpoints(media_container)[1]
SpanEnd == source_cutpoints(media_container)[GopCount + 1]

Kept(t) ==
  /\ SpanStart <= t /\ t < SpanEnd
  /\ \E k \in 1..Len(positive_segments) :
       positive_segments[k][1] <= t /\ t < positive_segments[k][2]

Covered(t) ==
  \E k \in SegIndices :
    cut_segments[k].start_time <= t /\ t < cut_segments[k].end_time

\* C5: in smartcut mode the planned segments cover exactly the keep intervals
\* clipped to [G_0, source end), and their durations sum to the clipped length.
C5_SegmentsCoverExactlyTheKeptTime ==
  (Planned /\ media_container.has_video /\ ~keyframe_mode) =>
    /\ \A k \in SegIndices :
         SpanStart <= cut_segments[k].start_time /\ cut_segments[k].end_time <= SpanEnd
    /\ \A t \in (SpanStart - 1)..(SpanEnd + 1) : Covered(t) <=> Kept(t)
    /\ SumSeq([k \in SegIndices |-> cut_segments[k].end_time - cut_segments[k].start_time])
         = Cardinality({t \in SpanStart..(SpanEnd - 1) : Kept(t)})

\* A smartcut plan with three recode segments and an interval clipped at G_0.
C5_Witness ==
  /\ Planned /\ media_container.has_video /\ ~keyframe_mode
  /\ Cardinality({k \in SegIndices : cut_segments[k].require_recode}) >= 3
  /\ positive_segments[1][1] < SpanStart
  /\ \E t \in SpanStart..(SpanEnd - 1) : ~Kept(t)

\* GOP i (0-based, as gop_index) spans [GopStart(i), GopEnd(i)).
GopIndices == 0..(GopCount - 1)
GopStart(i) == source_cutpoints(media_container)[i + 1]
GopEnd(i) == source_cutpoints(media_container)[i + 2]

IntervalIndices == 1..Len(positive_segments)
IntervalStart(p) == positive_segments[p][1]
IntervalEnd(p) == positive_segments[p][2]

\* The segments tagged with GOP i that start inside keep interval p.
SegmentsOf(p, i) ==
  {k \in SegIndices : /\ cut_segments[k].gop_index = i
                      /\ IntervalStart(p) <= cut_segments[k].start_time
                      /\ cut_segments[k].start_time < IntervalEnd(p)}

\* Interval p yields, for GOP i, the one recode segment (s, e).
OneRecodeSegment(p, i, s, e) ==
  /\ Cardinality(SegmentsOf(p, i)) = 1
  /\ \A k \in SegmentsOf(p, i) :
       /\ cut_segments[k].require_recode
       /\ cut_segments[k].start_time = s
       /\ cut_segments[k].end_time = e

BeginsInsideEndsPast(p, i) ==
  /\ GopStart(i) < IntervalStart(p) /\ IntervalStart(p) < GopEnd(i)
  /\ GopEnd(i) < IntervalEnd(p)

BeginsBeforeEndsInside(p, i) ==
  /\ IntervalStart(p) < GopStart(i)
  /\ GopStart(i) < IntervalEnd(p) /\ IntervalEnd(p) < GopEnd(i)

StrictlyInside(p, i) ==
  GopStart(i) < IntervalStart(p) /\ IntervalEnd(p) < GopEnd(i)

\* The planner went on to GOP i + 1 with interval p still current: GOP i + 1
\* has a segment that starts at its boundary.
ContinuesInNextGop(i) ==
  (i + 1 \in GopIndices) =>
    \E k \in SegIndices : /\ cut_segments[k].gop_index = i + 1
                          /\ cut_segments[k].start_time = GopStart(i + 1)

\* C21 as stated: in smartcut mode an interval that begins after the start of
\* GOP i and ends past its end yields one recode segment (max(s_p, G_i), e_p)
\* ending at the interval's end, and an interval that starts and ends inside
\* one GOP yields exactly one recode segment.
C21_RecodeRunsToIntervalEnd ==
  (Planned /\ media_container.has_video /\ ~keyframe_mode) =>
    \A p \in IntervalIndices : \A i \in GopIndices :
      /\ BeginsInsideEndsPast(p, i) =>
           OneRecodeSegment(p, i, Max(IntervalStart(p), GopStart(i)), IntervalEnd(p))
      /\ StrictlyInside(p, i) =>
           OneRecodeSegment(p, i, IntervalStart(p), IntervalEnd(p))

\* C21 as the planner does it: an interval that begins after the start of GOP i
\* and ends past its end yields one recode segment (s_p, G_i+1) ending at the
\* GOP's end, and stays current for GOP i + 1; an interval that begins before
\* G_i and ends inside GOP i yields one recode segment (G_i, e_p) ending at the
\* interval's end; an interval that starts and ends inside one GOP yields
\* exactly one recode segment.
C21_RecodeStopsAtGopEnd ==
  (Planned /\ media_container.has_video /\ ~keyframe_mode) =>
    \A p \in IntervalIndices : \A i \in GopIndices :
      /\ BeginsInsideEndsPast(p, i) =>
           /\ OneRecodeSegment(p, i, IntervalStart(p), GopEnd(i))
           /\ ContinuesInNextGop(i)
      /\ BeginsBeforeEndsInside(p, i) =>
           /\ Cardinality({k \in SegIndices : /\ cut_segments[k].gop_index = i
                                              /\ cut_segments[k].start_time = GopStart(i)}) = 1
           /\ \E k \in SegIndices : /\ cut_segments[k].gop_index = i
                                    /\ cut_segments[k].require_recode
                                    /\ cut_segments[k].start_time = GopStart(i)
                                    /\ cut_segments[k].end_time = IntervalEnd(p)
      /\ StrictlyInside(p, i) =>
           OneRecodeSegment(p, i, IntervalStart(p), IntervalEnd(p))

\* A smartcut plan with an interval that begins inside one GOP, crosses its
\* end and stops inside the next, and another interval inside a single GOP.
C21_Witness ==
  /\ Planned /\ media_container.has_video /\ ~keyframe_mode
  /\ \E p \in IntervalIndices : \E i \in GopIndices :
       /\ BeginsInsideEndsPast(p, i)
       /\ i + 1 \in GopIndices /\ BeginsBeforeEndsInside(p, i + 1)
  /\ \E p \in IntervalIndices : \E i \in GopIndices : StrictlyInside(p, i)

\* The segments the planner emitted for GOP i.
GopSegments(i) == {k \in SegIndices : cut_segments[k].gop_index = i}

OneCopySegment(i) ==
  /\ Cardinality(GopSegments(i)) = 1
  /\ \A k \in GopSegments(i) : ~cut_segments[k].require_recode

\* C22 as stated: when a keep interval starts exactly on the boundary G_i, the
\* planner emits for GOP i one copy segment and no recode segment.
C22_IntervalOnBoundaryIsCopied ==
  (Planned /\ media_container.has_video) =>
    \A p \in IntervalIndices : \A i \in GopIndices :
      (IntervalStart(p) = GopStart(i)) => OneCopySegment(i)

\* C22 with the interval's end taken into account: when a keep interval starts
\* exactly on the boundary G_i and reaches the end of GOP i (or the plan is
\* made in keyframe mode), the planner emits for GOP i one copy segment and no
\* recode segment; when it ends inside GOP i in smartcut mode, the first
\* segment of GOP i is the recode segment (G_i, e_p).
C22_IntervalOnBoundaryCoveringGopIsCopied ==
  (Planned /\ media_container.has_video) =>
    \A p \in IntervalIndices : \A i \in GopIndices :
      (IntervalStart(p) = GopStart(i)) =>
        IF keyframe_mode \/ GopEnd(i) <= IntervalEnd(p)
        THEN OneCopySegment(i)
        ELSE \E k \in GopSegments(i) :
               /\ cut_segments[k].require_recode
               /\ cut_segments[k].start_time = GopStart(i)
               /\ cut_segments[k].end_time = IntervalEnd(p)

\* A smartcut plan with an interval that starts on a GOP boundary and reaches
\* the GOP's end, after a GOP that is recoded.
C22_Witness ==
  /\ Planned /\ media_container.has_video /\ ~keyframe_mode
  /\ \E p \in IntervalIndices : \E i \in GopIndices :
       /\ i > 0
       /\ IntervalStart(p) = GopStart(i) /\ GopEnd(i) <= IntervalEnd(p)
       /\ \E k \in GopSegments(i - 1) : cut_segments[k].require_recode

\* Interval k clamped to the first audio track (smart_cut.py 69-70).
ClampStart(k) == Max(positive_segments[k][1], media_container.audio_first)
ClampEnd(k) == Min(positive_segments[k][2], media_container.audio_last + EndPad)

SegLength(k) == cut_segments[k].end_time - cut_segments[k].start_time

\* last[k] is the index of the last segment of interval k: the segments of
\* interval k are those after last[k - 1] up to last[k].
RunFirst(last, k) == IF k = 1 THEN 1 ELSE last[k - 1] + 1

SplitsByInterval(last) ==
  /\ last[Len(positive_segments)] = Len(cut_segments)
  /\ \A k \in IntervalIndices : RunFirst(last, k) <= last[k]

\* The segments of interval k abut and run from the clamped start to the
\* clamped end.
RunCovers(last, k) ==
  /\ cut_segments[RunFirst(last, k)].start_time = ClampStart(k)
  /\ cut_segments[last[k]].end_time = ClampEnd(k)
  /\ \A n \in RunFirst(last, k)..(last[k] - 1) :
       cut_segments[n].end_time = cut_segments[n + 1].start_time

AudioPlanCoversIntervals(last) ==
  /\ SplitsByInterval(last)
  /\ \A k \in IntervalIndices : RunCovers(last, k)
  /\ \A n \in SegIndices : ~cut_segments[n].require_recode

\* C23 as stated: for a source without video the planner emits only copy
\* segments, the segments of one interval abut and cover exactly the interval
\* clamped to the first audio track, and every segment is at most 19 s long.
C23_AudioSlicesAtMost19s ==
  (Planned /\ ~media_container.has_video) =>
    /\ \E last \in [IntervalIndices -> SegIndices] : AudioPlanCoversIntervals(last)
    /\ \A n \in SegIndices : SegLength(n) <= SliceLen

\* C23 with the lengths the loop gives: only copy segments, the segments of one
\* interval abut and cover exactly the clamped interval, every segment but the
\* last of its interval is exactly 19 s long and the last is at most 20 s.
C23_AudioSlicesAtMost20s ==
  (Planned /\ ~media_container.has_video) =>
    \E last \in [IntervalIndices -> SegIndices] :
      /\ AudioPlanCoversIntervals(last)
      /\ \A k \in IntervalIndices :
           /\ \A n \in RunFirst(last, k)..(last[k] - 1) : SegLength(n) = SliceLen
           /\ SegLength(last[k]) <= SliceLimit

\* A video-less plan with an interval cut into several slices and a slice
\* longer than 19 s.
C23_Witness ==
  /\ Planned /\ ~media_container.has_video
  /\ Len(cut_segments) > Len(positive_segments)
  /\ \E n \in SegIndices : SegLength(n) > SliceLen

\* GOP i and keep interval p have time in common.
Overlaps(p, i) == IntervalStart(p) < GopEnd(i) /\ GopStart(i) < IntervalEnd(p)

\* C24: in keyframe mode every planned segment is a copy segment over one
\* whole GOP, and a GOP has exactly one segment when it overlaps some keep
\* interval and none otherwise, however many intervals lie inside it.
C24_KeyframeModeCopiesEachOverlappedGopOnce ==
  (Planned /\ media_container.has_video /\ keyframe_mode) =>
    /\ \A k \in SegIndices :
         /\ ~cut_segments[k].require_recode
         /\ TaggedWithGop(cut_segments[k])
         /\ WholeGop(cut_segments[k])
    /\ \A i \in GopIndices :
         Cardinality(GopSegments(i)) =
           IF \E p \in IntervalIndices : Overlaps(p, i) THEN 1 ELSE 0

\* A keyframe-mode plan with two keep intervals strictly inside one GOP and
\* another GOP that no interval overlaps.
C24_Witness ==
  /\ Planned /\ media_container.has_video /\ keyframe_mode
  /\ \E i \in GopIndices : \E p, q \in IntervalIndices :
       p # q /\ StrictlyInside(p, i) /\ StrictlyInside(q, i)
  /\ \E i \in GopIndices : \A p \in IntervalIndices : ~Overlaps(p, i)

\* C38: the list that make_cut_segments returns is ordered and without
\* overlap, in smartcut and in keyframe mode: of every two consecutive
\* segments a, b, a.end_time <= b.start_time and a.gop_index <= b.gop_index.
C38_PlannedSegmentsAscendWithoutOverlap ==
  Planned =>
    \A k \in 1..(Len(cut_segments) - 1) :
      /\ cut_segments[k].end_time <= cut_segments[k + 1].start_time
      /\ cut_segments[k].gop_index <= cut_segments[k + 1].gop_index

\* a smartcut plan with two recode segments of one GOP, the second of which
\* starts where the first ends, before a segment of the next GOP
C38_Witness ==
  /\ Planned /\ media_container.has_video /\ ~keyframe_mode
  /\ \E k \in 1..(Len(cut_segments) - 2) :
       /\ cut_segments[k].require_recode /\ cut_segments[k + 1].require_recode
       /\ cut_segments[k].gop_index = cut_segments[k + 1].gop_index
       /\ cut_segments[k].end_time = cut_segments[k + 1].start_time
       /\ cut_segments[k + 1].gop_index < cut_segments[k + 2].gop_index

\* a keyframe-mode plan with the copies of two neighbouring GOPs
C38_WitnessKeyframeMode ==
  /\ Planned /\ media_container.has_video /\ keyframe_mode
  /\ \E k \in 1..(Len(cut_segments) - 1) :
       cut_segments[k].end_time = cut_segments[k + 1].start_time


(***************************************************************************)
(* Properties of the video cutter.                                         *)
(***************************************************************************)
Returned == cut_pc \in {"ready", "finished"} /\ call.op # "none"

\* the DTS of the packets returned so far, from the last one returned
\* before the latest call on
DtsTail ==
  (IF prev_dts = None THEN <<>> ELSE <<prev_dts>>)
  \o [j \in 1..Len(returned) |-> returned[j].dts]

EncodedPackets == {j \in 1..Len(returned) : returned[j].packet = 0}

\* C1: over the calls of segment() and then finish() on one cutter, every
\* returned video packet carries an integer DTS, and the DTS of the packets
\* returned strictly increases from each packet to the next, within a call
\* and from one call to the next, whether the encoder gave the packet a
\* DTS, none, or one out of range.
C1_ReturnedDtsStrictlyIncreases ==
  Returned =>
    /\ \A j \in 1..Len(DtsTail) : DtsTail[j] # None /\ DtsTail[j] # GarbageDts
    /\ \A j \in 1..(Len(DtsTail) - 1) : Val(DtsTail[j]) < Val(DtsTail[j + 1])

\* a flush whose packets came without a usable DTS, after packets were
\* already returned
C1_Witness ==
  /\ Returned
  /\ call.flush_dts \in {"absent", "garbage"}
  /\ prev_dts # None
  /\ Cardinality(EncodedPackets) >= 2

\* C2: every returned video packet has PTS >= DTS once its timestamps are
\* repaired, the packets whose DTS was absent or discarded included.
C2_ReturnedPtsAtLeastDts ==
  Returned =>
    \A j \in 1..Len(returned) :
      returned[j].pts # None => Val(returned[j].pts) >= Val(returned[j].dts)

LatestGop == call.segment.gop_index
LatestIsCopy == call.op = "segment" /\ ~call.segment.require_recode
LatestHasRasl == media_container.gop_has_rasl[LatestGop + 1]
FollowsItsPredecessor == LatestGop = 0 \/ copied_before = Some(LatestGop - 1)

\* C6: a copy segment over a GOP flagged gop_has_rasl is remuxed verbatim
\* only if its gop_index is 0 or the copy segment latest before it was over
\* the GOP gop_index - 1; in every other case the hybrid path handles it.
C6_RaslGopVerbatimOnlyAfterItsPredecessor ==
  (LatestIsCopy /\ LatestHasRasl) =>
    /\ call.path = "remux" => FollowsItsPredecessor
    /\ ~FollowsItsPredecessor => call.path = "hybrid"

C6_Witness ==
  /\ LatestIsCopy /\ LatestHasRasl /\ Returned
  /\ call.path = "remux" /\ LatestGop > 0
  /\ media_container.gop_has_rasl[LatestGop]

\* positions in source of the remuxed packets of the run, in emission order
RECURSIVE RunPackets(_)
RunPackets(r) ==
  IF r = <<>> THEN <<>>
  ELSE LET copied == SelectSeq(Head(r).packets, LAMBDA pk : pk.packet # 0)
       IN [j \in 1..Len(copied) |-> copied[j].packet] \o RunPackets(Tail(r))

\* C7: over a run of copy segments of consecutive GOPs i..j that all take
\* the remux branch, the source packets returned are exactly the packets of
\* the source with a PTS and a DTS in [gop_start_dts of i, gop_end_dts of
\* j], each once, in source order, each the packet it was in the source.
C7_CopyRunReturnsExactlyItsPackets ==
  (run # <<>> /\ cut_pc = "ready") =>
    RunPackets(run) =
      SortedSeq({n \in 1..Len(source) :
                   /\ source[n].pts # None
                   /\ source[n].dts >= run[1].segment.gop_start_dts
                   /\ source[n].dts <= run[Len(run)].segment.gop_end_dts})

\* a run of two GOPs after a recoded segment whose look-ahead packet was
\* saved, over a GOP with a packet without PTS
C7_Witness ==
  /\ cut_pc = "ready" /\ Len(run) >= 2
  /\ run[1].segment.gop_index > 0
  /\ \E pk \in {run[1].packets[j] : j \in 1..Len(run[1].packets)} : pk.packet = 0
  /\ \E n \in 1..Len(source) :
       /\ source[n].pts = None
       /\ source[n].dts >= run[1].segment.gop_start_dts
       /\ source[n].dts <= run[Len(run)].segment.gop_end_dts

\* every segment given to the cutter so far was a copy segment without a
\* hybrid CRA trigger
CopiesOnly == cut_pc \in {"ready", "finished"} /\ call.copies_only

\* the packets of the source with a PTS inside the GOP of the segment
GopSourcePackets(s) ==
  {n \in 1..Len(source) : /\ source[n].pts # None
                          /\ source[n].dts >= s.gop_start_dts
                          /\ source[n].dts <= s.gop_end_dts}

\* C18: when every segment given to the cutter is a copy segment and no
\* hybrid CRA trigger applies, the cutter never creates an encoder and
\* decodes no frame: every call of segment() takes the remux branch and
\* returns only packets of the source, those of the segment's GOP, and
\* finish() returns no packet.
C18_CopiesOnlyNeverEncode ==
  CopiesOnly =>
    /\ video_cutter.enc_codec = None
    /\ video_cutter.enc_last_pts = -1
    /\ video_cutter.frame_buffer = <<>>
    /\ video_cutter.frame_buffer_gop_dts = -1
    /\ call.op = "segment" =>
         /\ call.path = "remux"
         /\ \A j \in 1..Len(returned) :
              returned[j].packet \in GopSourcePackets(call.segment)
    /\ call.op = "finish" => returned = <<>>

\* finish() after copy segments that returned packets, the last of them the
\* copy of the last GOP of the source
C18_Witness ==
  /\ CopiesOnly /\ cut_pc = "finished"
  /\ call.op = "finish" /\ call.segment.gop_index = NumGops - 1
  /\ prev_dts # None

\* The latest call of fetch_frame, when the latest call of the cutter made one.
Fetched ==
  /\ call.op = "segment" /\ call.path \in {"recode", "hybrid"}
  /\ video_cutter.fetch_start # None

LastFetch == Val(video_cutter.fetch_start)

\* The fetch is continuous: last_fetch_end_dts is the new gop_end_dts or the
\* new gop_start_dts.
IsContinuous ==
  /\ LastFetch.last_fetch_end_dts # None
  /\ \/ Val(LastFetch.last_fetch_end_dts) = LastFetch.gop_end_dts
     \/ Val(LastFetch.last_fetch_end_dts) = LastFetch.gop_start_dts

\* C26 as the code does it: a continuous fetch (such as that of a second recode
\* segment of the same GOP) flushes nothing, keeps the frames the previous
\* fetch left in the heap and makes no seek; a fetch that is not continuous
\* flushes the decoder and clears the heap, unless the heap is already tagged
\* with the new gop_start_dts, which among the driver's calls is only the first
\* fetch of a source whose first GOP starts at the tag's initial value, with
\* an empty heap.
C26_FlushAndClearWhenNotContinuousAndTagDiffers ==
  Fetched =>
    /\ LastFetch.flushed <=> LastFetch.cleared
    /\ IsContinuous => (~LastFetch.flushed /\ ~LastFetch.sought)
    /\ ~IsContinuous =>
         IF LastFetch.frame_buffer_gop_dts # LastFetch.gop_start_dts
         THEN LastFetch.flushed
         ELSE /\ ~LastFetch.flushed
              /\ LastFetch.last_fetch_end_dts = None
              /\ LastFetch.frame_buffer_gop_dts = -1
              /\ LastFetch.frame_buffer = <<>>

\* C26 as stated: at the start of fetch_frame the decoder is flushed and the PTS heap
\* cleared exactly when the fetch is not continuous; a continuous fetch (such
\* as that of a second recode segment of the same GOP) flushes nothing, keeps
\* the frames the previous fetch left in the heap and makes no seek.
C26_FlushAndClearExactlyWhenNotContinuous ==
  Fetched =>
    /\ LastFetch.flushed <=> ~IsContinuous
    /\ LastFetch.cleared <=> ~IsContinuous
    /\ IsContinuous => ~LastFetch.sought

\* The second recode segment of a GOP: its fetch is continuous and finds the
\* frames that the first left in the heap.
C26_Witness ==
  /\ Fetched /\ call.path = "recode"
  /\ IsContinuous
  /\ LastFetch.gop_end_dts = Val(LastFetch.last_fetch_end_dts)
  /\ LastFetch.frame_buffer # <<>>
  /\ ~LastFetch.flushed /\ ~LastFetch.cleared

\* The latest call recoded a segment.
RecodedSegment == call.op = "segment" /\ call.path = "recode"

InSegment(fr, s) ==
  s.start_time <= fr.pts * in_time_base /\ fr.pts * in_time_base < s.end_time

\* C29: recode_segment gives the encoder exactly those of the frames that
\* fetch_frame yielded for the segment whose PTS, in seconds, is at or after
\* start_time and before end_time, in the order they were yielded: frames
\* before start_time are dropped and no frame at or after end_time is encoded.
C29_EncodesExactlyTheFramesInTheSegment ==
  RecodedSegment =>
    video_cutter.frames_seen.submitted =
      SelectSeq(video_cutter.frames_seen.released,
                LAMBDA fr : InSegment(fr, call.segment))

\* A recode of the end of a GOP that was primed from the GOP before it and
\* follows a recode of the GOP's head with a gap: frames of the priming GOP
\* and the frame between the two segments are dropped, a frame is encoded.
C29_Witness ==
  /\ RecodedSegment /\ cut_pc = "ready"
  /\ video_cutter.frames_seen.submitted # <<>>
  /\ \E k \in 1..Len(video_cutter.frames_seen.released) :
       LET fr == video_cutter.frames_seen.released[k]
       IN /\ fr.pts * in_time_base < call.segment.start_time
          /\ fr.pts * in_time_base >=
               media_container.gop_start_times_pts_s[call.segment.gop_index + 1]
  /\ Val(video_cutter.fetch_start).frame_buffer # <<>>

\* The latest call took the hybrid path and returned.
HybridSegment == call.op = "segment" /\ call.path = "hybrid" /\ cut_pc = "ready"

\* positions in the source of the packets of the call's GOP that are not
\* leading pictures, in source order
NonLeadingOfGop ==
  SortedSeq({n \in GopMembers(source, call.segment.gop_index + 1) : ~source[n].leading})

\* the decoded frames at or after the start of the call's GOP and before its
\* CRA packet in presentation order
LeadingOfGop ==
  LET g   == call.segment.gop_index + 1
      cra == source[GopStarts(source)[g]]
  IN SelectSeq(video_cutter.frames_seen.released, LAMBDA fr :
       /\ fr.pts * in_time_base >= media_container.gop_start_times_pts_s[g]
       /\ fr.pts < Val(cra.pts))

PrimedRecode ==
  /\ RecodedSegment /\ cut_pc = "ready"
  /\ call.segment.gop_index > 0
  /\ media_container.gop_has_rasl[call.segment.gop_index + 1]
  /\ video_cutter.fetch_start # None

\* positions of the packets the call decoded into an emptied heap: those of
\* the frames it yielded and of the frames it left in the heap
DecodedPackets ==
  {video_cutter.frames_seen.released[k].packet :
     k \in 1..Len(video_cutter.frames_seen.released)}
  \cup {video_cutter.frame_buffer[k].packet : k \in 1..Len(video_cutter.frame_buffer)}

\* the call read from the keyframe of the GOP before its own, with no saved
\* packet, after a seek to that GOP's start DTS, and decoded every packet
\* with a PTS from there to the end of its own GOP
PrimedFromPreviousGop ==
  LET g    == call.segment.gop_index + 1
      from == GopStarts(source)[g - 1]
  IN /\ LastFetch.sought
     /\ LastFetch.start_dts = media_container.gop_start_times_dts[g - 1]
     /\ LastFetch.demux_from = from
     /\ LastFetch.saved_packet = None
     /\ DecodedPackets =
          {n \in from..Len(source) :
             /\ source[n].pts # None
             /\ n \in GopMembers(source, g - 1) \cup GopMembers(source, g)}

\* C31 as the code does it: a recode segment on a GOP i > 0 flagged
\* gop_has_rasl whose fetch is not continuous is primed from the previous GOP:
\* the demuxer is sought to gop_start_dts[i-1], the saved packet cleared, and
\* the packets of GOP i-1 are decoded before those of GOP i.  A continuous
\* fetch (a later recode segment of the same GOP) makes no seek and reads on
\* from where the fetch before it stopped.
C31_RecodeOfRaslGopIsPrimedUnlessContinuous ==
  PrimedRecode =>
    IF IsContinuous
    THEN /\ ~LastFetch.sought
         /\ LastFetch.start_dts = call.segment.gop_start_dts
    ELSE PrimedFromPreviousGop

\* C31 as stated: for a recode segment on a GOP i > 0 flagged gop_has_rasl the
\* decoder is primed from the previous GOP: demuxing starts at
\* gop_start_dts[i-1] after a seek, and every packet of GOP i-1 is decoded
\* before the first packet of GOP i.
C31_RecodeOfRaslGopIsPrimed ==
  PrimedRecode => PrimedFromPreviousGop

\* A recode of a GOP with leading pictures that sought back to the GOP
\* before it, while the demuxer stood elsewhere, and encoded a frame.
C31_Witness ==
  /\ PrimedRecode /\ ~IsContinuous
  /\ PrimedFromPreviousGop
  /\ LastFetch.last_fetch_end_dts # None
  /\ video_cutter.frames_seen.submitted # <<>>

\* the number of packets of the encoder among pkts
EncoderPacketCount(pkts) == Cardinality({j \in 1..Len(pkts) : pkts[j].packet = 0})

\* the packets of the encoder come before every remuxed packet
EncoderPacketsFirst(pkts) ==
  \A j, k \in 1..Len(pkts) : (j < k /\ pkts[k].packet = 0) => pkts[j].packet = 0

\* One call of segment() or finish() that returns, from the cutter before it
\* to the cutter after it.
EncoderLifecycleStep ==
  (cut_pc = "ready" /\ cut_pc' \in {"ready", "finished"}) =>
    IF call'.path = "recode"
    THEN /\ video_cutter'.enc_codec # None
         /\ video_cutter.enc_codec # None =>
              SubSeq(Val(video_cutter'.enc_codec).frames, 1,
                     Len(Val(video_cutter.enc_codec).frames))
                = Val(video_cutter.enc_codec).frames
         /\ EncoderPacketCount(returned') = Len(returned')
         /\ EncoderPacketCount(returned') + Pending(video_cutter')
              = Pending(video_cutter) + Len(video_cutter'.frames_seen.submitted)
    ELSE /\ video_cutter'.enc_codec = None
         /\ EncoderPacketsFirst(returned')
         /\ EncoderPacketCount(returned')
              = Pending(video_cutter)
                + (IF call'.path = "hybrid"
                   THEN Len(video_cutter'.frames_seen.submitted) ELSE 0)

MaxTrackPackets == 2   \* packets of a track
MaxTrackPts == 2       \* largest PTS of a source packet
EarlyTrackPts == 1     \* how far below zero the PTS of a source packet goes
MaxTrackCalls == 3     \* calls of segment() and new output files, together

audio_time_base == 20000      \* ticks per unit of the audio stream (2 s)
subtitle_time_base == 20000   \* ticks per unit of the subtitle stream
InitialPrev == -100000        \* initial_prev_dts, initial_prev_pts

\* round(Fraction(a, b)) for b > 0: Python rounds a half to the even side.
Round(a, b) ==
  LET q == a \div b
      r == a % b
  IN IF 2 * r < b THEN q
     ELSE IF 2 * r > b THEN q + 1
     ELSE IF q % 2 = 0 THEN q ELSE q + 1

\* np.searchsorted(arr, v) on a sorted array: the entries below v
SearchSorted(arr, v) == Cardinality({j \in 1..Len(arr) : arr[j] < v})

\* the track's array of packet PTS, parallel to its packets
frame_times_pts(track) == [j \in 1..Len(track) |-> track[j].pts]

\* PassthruAudioCutter.__init__ with its default arguments
PassthruAudioCutter ==
  [segment_start_in_output |-> 0, prev_dts |-> InitialPrev, prev_pts |-> InitialPrev]

\* int(v + (self.segment_start_in_output - cut_segment.start_time) / in_tb)
AudioShift(v, self, cut_segment) ==
  Trunc(v * audio_time_base + self.segment_start_in_output - cut_segment.start_time,
        audio_time_base)

\* the correction of a too low timestamp if it let an equal one through
AudioBump_AllowEqual(v, prev) == IF v < prev THEN prev + 1 ELSE v

\* if timestamp <= previous: timestamp = previous + 1
AudioBump(v, prev) == IF v <= prev THEN prev + 1 ELSE v

\* the correction of the PTS if it were left out
AudioBumpPts_Missing(v, self) == v

\* if packet.pts <= self.prev_pts: packet.pts = self.prev_pts + 1
AudioBumpPts(v, self) == AudioBump(v, self.prev_pts)

\* if packet.dts <= self.prev_dts: packet.dts = self.prev_dts + 1
AudioBumpDts(v, self) == AudioBump(v, self.prev_dts)

\* The loop of PassthruAudioCutter.segment over in_packets, which are the
\* packets of the track from position n on.
RECURSIVE AudioLoop(_, _, _, _)
AudioLoop(self, in_packets, n, cut_segment) ==
  IF in_packets = <<>> THEN [self |-> self, packets |-> <<>>]
  ELSE IF Head(in_packets).dts = None
  THEN AudioLoop(self, Tail(in_packets), n + 1, cut_segment)
  ELSE LET pts == AudioBumpPts(AudioShift(Head(in_packets).pts, self, cut_segment),
                               self)
           dts == AudioBumpDts(AudioShift(Val(Head(in_packets).dts), self, cut_segment),
                               self)
       IN [AudioLoop([self EXCEPT !.prev_pts = pts, !.prev_dts = dts],
                     Tail(in_packets), n + 1, cut_segment)
             EXCEPT !.packets = <<[pts |-> pts, dts |-> dts, packet |-> n]>> \o @]

\* PassthruAudioCutter.segment once in_packets is sliced from the track
AudioSliced(self, in_packets, start, cut_segment) ==
  [AudioLoop(self, in_packets, start + 1, cut_segment)
     EXCEPT !.self.segment_start_in_output =
              @ + cut_segment.end_time - cut_segment.start_time]

\* PassthruAudioCutter.segment
audio_segment(self, track, cut_segment) ==
  LET start == IF cut_segment.start_time <= 0 THEN 0
               ELSE SearchSorted(frame_times_pts(track),
                                 Round(cut_segment.start_time, audio_time_base))
      end   == SearchSorted(frame_times_pts(track),
                            Round(cut_segment.end_time, audio_time_base))
  IN AudioSliced(self, SubSeq(track, start + 1, end), start, cut_segment)

\* SubtitleCutter.__init__ with its default arguments
SubtitleCutter ==
  [segment_start_in_output |-> 0, prev_pts |-> InitialPrev, current_packet_i |-> 0]

\* the while loop if it never skipped a packet and stopped after one
SubtitleSelect_NoSkip(packets, i, segment_start_pts, segment_end_pts) ==
  IF /\ i < Len(packets)
     /\ segment_start_pts <= packets[i + 1].pts
     /\ packets[i + 1].pts < segment_end_pts
  THEN [current_packet_i |-> i + 1, out |-> <<i + 1>>]
  ELSE [current_packet_i |-> i, out |-> <<>>]

\* The while loop of SubtitleCutter.segment: the cursor after it, and the
\* positions in self.packets of the packets it put into out_packets.
RECURSIVE SubtitleSelect(_, _, _, _)
SubtitleSelect(packets, i, segment_start_pts, segment_end_pts) ==
  IF i >= Len(packets) THEN [current_packet_i |-> i, out |-> <<>>]
  ELSE IF packets[i + 1].pts < segment_start_pts
  THEN SubtitleSelect(packets, i + 1, segment_start_pts, segment_end_pts)
  ELSE IF packets[i + 1].pts < segment_end_pts
  THEN [SubtitleSelect(packets, i + 1, segment_start_pts, segment_end_pts)
          EXCEPT !.out = <<i + 1>> \o @]
  ELSE [current_packet_i |-> i, out |-> <<>>]

\* the correction of a too low pts if it caught an equal one as well
SubtitleBump_CatchEqual(v, prev) == IF v <= prev THEN prev + 1 ELSE v

\* if packet.pts < self.prev_pts: packet.pts = self.prev_pts + 1
SubtitleBump(v, prev) == IF v < prev THEN prev + 1 ELSE v

\* The for loop of SubtitleCutter.segment over out_packets.  The packets it
\* writes to are the objects the index holds, so the writes show in packets.
RECURSIVE SubtitleLoop(_, _, _, _)
SubtitleLoop(self, packets, out, segment_start_pts) ==
  IF out = <<>> THEN [self |-> self, packets |-> packets, returned |-> <<>>]
  ELSE LET n   == Head(out)
           pts == SubtitleBump(
                    Trunc((packets[n].pts - segment_start_pts) * subtitle_time_base
                          + self.segment_start_in_output, subtitle_time_base),
                    self.prev_pts)
       IN [SubtitleLoop([self EXCEPT !.prev_pts = pts],
                        [packets EXCEPT ![n] = [pts |-> pts, dts |-> Some(pts),
                                                stream |-> "out"]],
                        Tail(out), segment_start_pts)
             EXCEPT !.returned = <<[pts |-> pts, dts |-> pts, packet |-> n]>> \o @]

\* SubtitleCutter.segment from the outcome of its while loop
SubtitleSelected(self, packets, sel, segment_start_pts, cut_segment) ==
  [SubtitleLoop([self EXCEPT !.current_packet_i = sel.current_packet_i],
                packets, sel.out, segment_start_pts)
     EXCEPT !.self.segment_start_in_output =
              @ + cut_segment.end_time - cut_segment.start_time]

\* SubtitleCutter.segment: the cutter, the packets of the index and the
\* packets returned
subtitle_segment(self, packets, cut_segment) ==
  SubtitleSelected(self, packets,
    SubtitleSelect(packets, self.current_packet_i,
                   Trunc(cut_segment.start_time, subtitle_time_base),
                   Trunc(cut_segment.end_time, subtitle_time_base)),
    Trunc(cut_segment.start_time, subtitle_time_base), cut_segment)

(***************************************************************************)
(*                           The cut driver                                *)
(*                                                                         *)
(* smart_cut with a video source that has one audio track, exported as    *)
(* passthru, and one subtitle track: the generators of each output file    *)
(* are its VideoCutter, its PassthruAudioCutter and its SubtitleCutter, in *)
(* that order.  The GOPs of the source are alike; the keep intervals begin *)
(* and end at GOP starts, half a frame after one, or the end of the        *)
(* source.  Another thread may set cancel_object.cancelled at any moment;  *)
(* nothing clears it.                                                      *)
(***************************************************************************)
MaxFiles == 2   \* keep intervals given to the driver

DriverSources ==
  {SourcePackets([g \in 1..NumGops |-> shape], 0) :
     shape \in {x \in GopShapes : ~x.nopts}}

DriverTimes(mc) ==
  LET G == mc.gop_start_times_pts_s
      h == in_time_base \div 2
  IN {G[g] - mc.start_time : g \in 1..Len(G)}
     \cup {G[g] + h - mc.start_time : g \in 1..Len(G)}
     \cup {mc.duration}

DriverIntervals(mc) ==
  LET T == DriverTimes(mc)
      pairs == {q \in T \X T : q[1] < q[2]}
  IN UNION {{q \in [1..n -> pairs] : \A k \in 1..(n - 1) : q[k][2] <= q[k + 1][1]} :
            n \in 1..MaxFiles}

\* the audio and the subtitle track of the source: a packet at the second
\* and at the third video frame, and a subtitle at the second and the fourth
DriverAudioTrack ==
  [j \in 1..2 |-> [pts |-> j * (in_time_base \div audio_time_base),
                   dts |-> Some(j * (in_time_base \div audio_time_base))]]
DriverSubtitleTrack ==
  [j \in 1..2 |-> [pts |-> (2 * j - 1) * (in_time_base \div subtitle_time_base),
                   dts |-> Some((2 * j - 1) * (in_time_base \div subtitle_time_base)),
                   stream |-> "in"]]

\* os.path state of an output file, the number of packets muxed into it,
\* and the segments (by their place in cut_segments) handed to the
\* generators while it was the open file
NoFile == [state |-> "absent", muxed |-> 0, segments |-> <<>>]

DriverInit ==
  /\ source \in DriverSources
  /\ media_container = IndexOf(source)
  /\ raw_segments \in DriverIntervals(media_container)
  /\ keyframe_mode = FALSE
  /\ positive_segments = <<>> /\ cut_segments = <<>> /\ plan_pc = "idle"
  /\ video_cutter = <<>> /\ returned = <<>> /\ call = <<>>
  /\ prev_dts = <<>> /\ copied_before = <<>> /\ run = <<>> /\ cut_pc = "idle"
  /\ segment_mode \in BOOLEAN
  /\ output_files = <<>>
  /\ file_index = 0
  /\ previously_done_segments = 0
  /\ files = <<>>
  /\ cancelled = FALSE
  /\ observed = None
  /\ return_value = <<"running">>
  /\ drive_pc = "start"
  /\ audio_track = DriverAudioTrack /\ subtitle_track = DriverSubtitleTrack
  /\ track_index = [audio |-> audio_track, subtitles |-> subtitle_track]
  /\ audio_cutter = <<>> /\ subtitle_cutter = <<>>
  /\ audio_returned = <<>> /\ subtitle_returned = <<>>
  /\ audio_prev = <<>> /\ subtitle_prev = <<>>
  /\ track_call = <<>> /\ track_pc = "idle"
  /\ IndexIdle /\ FetchIdle

\* cancel_object.cancelled = True, by the caller's thread
Cancel ==
  /\ drive_pc \notin {"idle", "done", "crashed"}
  /\ ~cancelled
  /\ cancelled' = TRUE
  /\ UNCHANGED <<sideVars, planVars, cutVars, segment_mode, output_files, file_index,
                 previously_done_segments, files, observed, return_value, drive_pc>>

\* packets handed to the muxer so far, over all output files
RECURSIVE TotalMuxed(_)
TotalMuxed(fs) == IF fs = <<>> THEN 0 ELSE Head(fs).muxed + TotalMuxed(Tail(fs))

\* what observed holds once the poll `where` has seen cancelled: the first
\* poll that saw it, the output file the loop was at, the packets muxed
Observe(where) ==
  IF observed = None
  THEN Some([poll |-> where, file |-> file_index, muxed |-> TotalMuxed(files)])
  ELSE observed

\* smart_cut, lines 105-132: the plan and the list of output files
Prepare ==
  /\ drive_pc = "start"
  /\ LET adjusted == make_adjusted_segment_times(raw_segments, media_container)
     IN /\ positive_segments' = adjusted
        /\ cut_segments' = make_cut_segments(media_container, adjusted, keyframe_mode)
        /\ output_files' = IF segment_mode THEN adjusted
                           ELSE <<adjusted[Len(adjusted)]>>
        /\ files' = [k \in 1..(IF segment_mode THEN Len(adjusted) ELSE 1) |-> NoFile]
  /\ file_index' = 1
  /\ drive_pc' = "file"
  /\ UNCHANGED <<sideVars, media_container, raw_segments, keyframe_mode, plan_pc, cutVars,
                 segment_mode, previously_done_segments, cancelled, observed,
                 return_value>>

\* smart_cut, lines 133-175: the head of the loop over output_files, its
\* poll of cancel_object, and the opening of the file with its generators;
\* past the last file, or on break, the function ends.
OpenFile ==
  /\ drive_pc = "file"
  /\ UNCHANGED file_index
  /\ IF file_index > Len(output_files)
     THEN /\ drive_pc' = "done" /\ return_value' = None
          /\ UNCHANGED <<files, video_cutter, audio_cutter, subtitle_cutter, observed>>
     ELSE IF cancelled
     THEN /\ drive_pc' = "done" /\ return_value' = None
          /\ observed' = Observe("file")
          /\ UNCHANGED <<files, video_cutter, audio_cutter, subtitle_cutter>>
     ELSE /\ files' = [files EXCEPT ![file_index].state = "open"]
          /\ video_cutter' = VideoCutter
          /\ audio_cutter' = PassthruAudioCutter
          /\ subtitle_cutter' = SubtitleCutter
          /\ drive_pc' = "segments"
          /\ UNCHANGED <<observed, return_value>>
  /\ UNCHANGED <<audio_track, subtitle_track, otherTrackVars, indexVars, fetchVars, planVars, source, returned, call, prev_dts, copied_before, run, cut_pc,
                 segment_mode, output_files, previously_done_segments, cancelled>>

\* output_av_container.mux(packet) for each of the packets
Mux(fs, k, pkts) == [fs EXCEPT ![k].muxed = @ + Len(pkts)]

\* for g in generators: g.segment(s), for the n-th planned segment
Handed(fs, k, n) == [fs EXCEPT ![k].segments = Append(@, n)]

\* the test for the next output file if it let a segment that starts at
\* the interval's end through
NextOutputFile_Strict(s, output_path_segment) ==
  s.start_time > output_path_segment[2]

\* if s.start_time >= output_path_segment[1][1]: break
NextOutputFile(s, output_path_segment) ==
  s.start_time >= output_path_segment[2]

\* smart_cut, lines 177-192: one turn of the loop over cut_segments: the
\* poll of cancel_object, the test for the next output file, the assertion,
\* and the segment handed to the generators, the video cutter first, with
\* their packets muxed.  A generator that hangs or raises ends the loop
\* before the generators after it are called.
NextSegment ==
  /\ drive_pc = "segments"
  /\ UNCHANGED file_index
  /\ IF previously_done_segments >= Len(cut_segments)
     THEN /\ drive_pc' = "finish"
          /\ UNCHANGED <<previously_done_segments, files, generatorVars, observed>>
     ELSE IF cancelled
     THEN /\ drive_pc' = "finish"
          /\ observed' = Observe("segment")
          /\ UNCHANGED <<previously_done_segments, files, generatorVars>>
     ELSE LET s == cut_segments[previously_done_segments + 1]
          IN IF NextOutputFile(s, output_files[file_index])
             THEN /\ drive_pc' = "finish"
                  /\ UNCHANGED <<previously_done_segments, files, generatorVars, observed>>
             ELSE /\ previously_done_segments' = previously_done_segments + 1
                  /\ UNCHANGED observed
                  /\ IF ~(s.start_time < s.end_time)
                     THEN /\ drive_pc' = "crashed"
                          /\ UNCHANGED <<files, generatorVars>>
                     ELSE \E dts_kind \in FlushChoices(s) :
                          \E r \in {segment(source, media_container, video_cutter,
                                             s, dts_kind)} :
                               /\ video_cutter' = r.self
                               /\ drive_pc' = IF r.hang \/ r.crash THEN "crashed"
                                              ELSE "segments"
                               /\ IF r.hang \/ r.crash
                                  THEN /\ files' = Mux(Handed(files, file_index,
                                                               previously_done_segments + 1),
                                                        file_index, r.packets)
                                       /\ UNCHANGED <<audio_cutter, subtitle_cutter,
                                                      subtitle_track>>
                                  ELSE \E a \in {audio_segment(audio_cutter, audio_track, s)} :
                                       \E t \in {subtitle_segment(subtitle_cutter,
                                                                   subtitle_track, s)} :
                                         /\ audio_cutter' = a.self
                                         /\ subtitle_cutter' = t.self
                                         /\ subtitle_track' = t.packets
                                         /\ files' = Mux(Handed(files, file_index,
                                                                 previously_done_segments + 1),
                                                          file_index,
                                                          r.packets \o a.packets \o t.returned)
  /\ UNCHANGED <<audio_track, otherTrackVars, indexVars, fetchVars, planVars, source, returned, call, prev_dts, copied_before, run, cut_pc,
                 segment_mode, output_files, cancelled, return_value>>

\* smart_cut, lines 194-200: finish() of the generators with their packets
\* muxed (the audio and the subtitle cutter return none), and the end of
\* the with block, which closes the file.
FinishFile ==
  /\ drive_pc = "finish"
  /\ \E dts_kind \in FlushDts :
     \E r \in {finish(video_cutter, dts_kind)} :
          /\ video_cutter' = r.self
          /\ files' = [Mux(files, file_index, r.packets)
                         EXCEPT ![file_index].state = "closed"]
  /\ drive_pc' = "closed"
  /\ UNCHANGED <<sideVars, planVars, source, returned, call, prev_dts, copied_before, run, cut_pc,
                 segment_mode, output_files, file_index, previously_done_segments,
                 cancelled, observed, return_value>>

\* os.remove(last_file_path) if it does not keep the file
RemoveFile_Keep(fs, k) == fs

\* if os.path.exists(last_file_path): os.remove(last_file_path)
RemoveFile(fs, k) ==
  IF fs[k].state # "absent" THEN [fs EXCEPT ![k].state = "deleted"] ELSE fs

\* smart_cut, lines 202-206: the poll after the file is closed, and the
\* step to the next output file.
AfterFile ==
  /\ drive_pc = "closed"
  /\ file_index' = file_index + 1
  /\ IF cancelled
     THEN /\ files' = RemoveFile(files, file_index)
          /\ observed' = Observe("closed")
     ELSE UNCHANGED <<files, observed>>
  /\ drive_pc' = "file"
  /\ UNCHANGED <<sideVars, planVars, cutVars, segment_mode, output_files,
                 previously_done_segments, cancelled, return_value>>

DriverNext == Cancel \/ Prepare \/ OpenFile \/ NextSegment \/ FinishFile \/ AfterFile

SpecDriver == DriverInit /\ [][DriverNext]_vars

(***************************************************************************)
(* Properties of the cut driver.                                           *)
(***************************************************************************)
Done == drive_pc = "done"
SawCancel == observed # None
SawCancelAt(where) == SawCancel /\ Val(observed).poll = where

\* C8: once the driver has seen cancel_object.cancelled at its poll between
\* two segments, it hands no further packet to the muxer, for any output
\* file: none returned by segment() and none returned by finish().
C8_NoPacketMuxedAfterCancelSeen ==
  SawCancelAt("segment") => TotalMuxed(files) = Val(observed).muxed

\* C9: when a poll sees the cancellation during an export, the output file
\* the driver was at is deleted by the time smart_cut ends, the output
\* files completed before it are left in place, and no later output file
\* is created; a poll that sees it before a file is opened creates none.
C9_CancelDeletesOnlyTheFileInProgress ==
  SawCancel =>
    LET k == Val(observed).file
    IN /\ \A j \in 1..Len(files) :
            /\ j < k => files[j].state = "closed"
            /\ j > k => files[j].state = "absent"
       /\ SawCancelAt("file") => files[k].state = "absent"
       /\ (Done /\ ~SawCancelAt("file")) => files[k].state = "deleted"

\* cancellation seen between two segments of the second output file
C9_Witness ==
  /\ Done /\ SawCancelAt("segment")
  /\ Val(observed).file = 2 /\ Len(files) = 2
  /\ files[2].muxed > 0

\* C10: what smart_cut returns signals Cancelled when the export stopped
\* because a poll saw the cancellation, and it returns no error only when
\* the cut ran to its end.
C10_ReturnValueSignalsCancelled ==
  (Done /\ SawCancel) => return_value # None

\* the segments handed to the generators, over the output files in order
RECURSIVE HandedOver(_)
HandedOver(fs) == IF fs = <<>> THEN <<>> ELSE Head(fs).segments \o HandedOver(Tail(fs))

InFile(n, k) == \E j \in 1..Len(files[k].segments) : files[k].segments[j] = n

\* the n-th planned segment lies inside the k-th keep interval, as adjusted
InsideInterval(n, k) ==
  /\ positive_segments[k][1] <= cut_segments[n].start_time
  /\ cut_segments[n].end_time <= positive_segments[k][2]

CompleteSegmentMode == Done /\ segment_mode /\ ~keyframe_mode /\ ~cancelled

\* C11: in segment mode with smartcut planning, an export that ends without
\* cancellation has opened one output file per keep interval, has handed
\* every planned segment to the generators once and in planned order, and
\* has written a segment to the k-th file exactly when the segment lies
\* inside the k-th keep interval.
C11_SegmentModeWritesEachIntervalToItsFile ==
  CompleteSegmentMode =>
    /\ Len(files) = Len(raw_segments)
    /\ \A k \in 1..Len(files) : files[k].state = "closed"
    /\ HandedOver(files) = [n \in 1..Len(cut_segments) |-> n]
    /\ \A k \in 1..Len(files) : \A n \in 1..Len(cut_segments) :
         InFile(n, k) <=> InsideInterval(n, k)

\* two touching keep intervals, each with segments of its own
C11_Witness ==
  /\ CompleteSegmentMode
  /\ Len(files) = 2
  /\ positive_segments[1][2] = positive_segments[2][1]
  /\ Len(files[1].segments) >= 2 /\ Len(files[2].segments) >= 1

\* the sum of end_time - start_time over planned segments, given by their
\* places in cut_segments
RECURSIVE SumOfDurations(_)
SumOfDurations(ns) ==
  IF ns = <<>> THEN 0
  ELSE cut_segments[Head(ns)].end_time - cut_segments[Head(ns)].start_time
       + SumOfDurations(Tail(ns))

\* an output file is open and every call of segment() so far has returned
GeneratorsAtRest == drive_pc \in {"segments", "finish", "closed"}

\* C37: after the calls of segment() that the driver made for the open
\* output file, the video, the audio and the subtitle cutter hold the same
\* segment_start_in_output, the sum of end_time - start_time over the
\* segments handed to them for that file, whether a segment was copied,
\* recoded or went the hybrid way; for a file just opened it is 0.
C37_CuttersShareTheOutputPosition ==
  GeneratorsAtRest =>
    /\ video_cutter.segment_start_in_output = SumOfDurations(files[file_index].segments)
    /\ audio_cutter.segment_start_in_output = video_cutter.segment_start_in_output
    /\ subtitle_cutter.segment_start_in_output = video_cutter.segment_start_in_output

\* the second output file after a recoded and a copied segment, the first
\* file having had segments of its own
C37_Witness ==
  /\ GeneratorsAtRest /\ file_index = 2
  /\ files[1].segments # <<>>
  /\ \E j, k \in 1..Len(files[2].segments) :
       /\ cut_segments[files[2].segments[j]].require_recode
       /\ ~cut_segments[files[2].segments[k]].require_recode
  /\ audio_cutter.segment_start_in_output > 0

(***************************************************************************)
(* The cutters under the driver's calls: smart_cut hands each planned      *)
(* segment to every generator, and the planner's segments ascend without   *)
(* overlap.  The source has an audio track or a subtitle track.            *)
(***************************************************************************)
TrackPts == (-EarlyTrackPts)..MaxTrackPts

AudioTracks ==
  UNION {{q \in [1..n -> [pts : TrackPts, dts : {None} \cup {Some(d) : d \in (-EarlyTrackPts - 1)..(MaxTrackPts + 1)}]] :
            /\ \A j \in 1..n : q[j].dts # None => Val(q[j].dts) - q[j].pts \in {-1, 0, 1}
            /\ \A j \in 1..(n - 1) : q[j].pts < q[j + 1].pts} :
         n \in 1..MaxTrackPackets}

SubtitleTracks ==
  UNION {{q \in [1..n -> [pts : TrackPts, dts : {Some(d) : d \in TrackPts},
                           stream : {"in"}]] :
            /\ \A j \in 1..n : q[j].dts = Some(q[j].pts)
            /\ \A j \in 1..(n - 1) : q[j].pts <= q[j + 1].pts} :
         n \in 1..MaxTrackPackets}

\* a source whose container starts below zero has segments that do so too
TrackTimes ==
  {k * (audio_time_base \div 2) : k \in (-2 * EarlyTrackPts)..(2 * MaxTrackPts + 2)}

NextTrackSegments(latest) ==
  {CutSegment(FALSE, q[1], q[2], -1, -1, -1) :
     q \in {x \in TrackTimes \X TrackTimes :
              /\ latest = NoSegment \/ latest.end_time <= x[1]
              /\ x[1] < x[2]}}

LastReturned(before, pkts) == IF pkts = <<>> THEN before ELSE Some(pkts[Len(pkts)])

TracksInit ==
  /\ \/ audio_track \in AudioTracks /\ subtitle_track = <<>>
     \/ audio_track = <<>> /\ subtitle_track \in SubtitleTracks
  /\ track_index = [audio |-> audio_track, subtitles |-> subtitle_track]
  /\ audio_cutter = PassthruAudioCutter
  /\ subtitle_cutter = SubtitleCutter
  /\ audio_returned = <<>> /\ subtitle_returned = <<>>
  /\ audio_prev = None /\ subtitle_prev = None
  /\ track_call = [op |-> "open", segment |-> NoSegment, calls |-> 0]
  /\ track_pc = "ready"
  /\ PlanIdle /\ CutterIdle /\ DriverIdle /\ IndexIdle /\ FetchIdle
  /\ media_container = <<>>

\* smart_cut, lines 187-193: g.segment(s) for the audio and the subtitle
\* generator
TrackSegment ==
  /\ track_pc = "ready"
  /\ track_call.calls < MaxTrackCalls
  /\ \E s \in NextTrackSegments(track_call.segment) :
       /\ \E r \in {audio_segment(audio_cutter, audio_track, s)} :
            /\ audio_cutter' = r.self
            /\ audio_returned' = r.packets
       /\ \E r \in {subtitle_segment(subtitle_cutter, subtitle_track, s)} :
            /\ subtitle_cutter' = r.self
            /\ subtitle_track' = r.packets
            /\ subtitle_returned' = r.returned
       /\ track_call' = [op |-> "segment", segment |-> s, calls |-> track_call.calls + 1]
  /\ audio_prev' = LastReturned(audio_prev, audio_returned)
  /\ subtitle_prev' = LastReturned(subtitle_prev, subtitle_returned)
  /\ UNCHANGED <<audio_track, track_index, track_pc, planVars, cutVars, driveVars,
                 indexVars, fetchVars>>

\* smart_cut, lines 164-172: the cutters of the next output file
NewTrackCutters ==
  /\ track_pc = "ready"
  /\ track_call.op = "segment"
  /\ track_call.calls < MaxTrackCalls
  /\ audio_cutter' = PassthruAudioCutter
  /\ subtitle_cutter' = SubtitleCutter
  /\ audio_returned' = <<>> /\ subtitle_returned' = <<>>
  /\ audio_prev' = None /\ subtitle_prev' = None
  /\ track_call' = [track_call EXCEPT !.op = "open", !.calls = @ + 1]
  /\ UNCHANGED <<audio_track, subtitle_track, track_index, track_pc,
                 planVars, cutVars, driveVars, indexVars, fetchVars>>

TracksNext == TrackSegment \/ NewTrackCutters

SpecTracks == TracksInit /\ [][TracksNext]_vars

(***************************************************************************)
(* Properties of the audio and subtitle cutters.                           *)
(***************************************************************************)
\* the packets a cutter has returned, from the last one before its latest
\* call on
AudioTail == (IF audio_prev = None THEN <<>> ELSE <<Val(audio_prev)>>) \o audio_returned
SubtitleTail ==
  (IF subtitle_prev = None THEN <<>> ELSE <<Val(subtitle_prev)>>) \o subtitle_returned

\* C12: over the calls of segment() on one PassthruAudioCutter, the PTS and
\* the DTS of the packets returned each strictly increase from every packet
\* to the next, within a call and from one call to the next.
C12_AudioPtsAndDtsStrictlyIncrease ==
  \A j \in 1..(Len(AudioTail) - 1) :
    /\ AudioTail[j].pts < AudioTail[j + 1].pts
    /\ AudioTail[j].dts < AudioTail[j + 1].dts

\* a later call returns a packet whose shifted PTS was not above the last
\* PTS of the call before
C12_Witness ==
  /\ audio_prev # None /\ audio_returned # <<>>
  /\ audio_returned[1].pts = Val(audio_prev).pts + 1
  /\ AudioShift(audio_track[audio_returned[1].packet].pts,
                [audio_cutter EXCEPT !.segment_start_in_output =
                   @ - (track_call.segment.end_time - track_call.segment.start_time)],
                track_call.segment) <= Val(audio_prev).pts

SourcePtsAtLeastDts ==
  \A j \in 1..Len(audio_track) :
    audio_track[j].dts # None => audio_track[j].pts >= Val(audio_track[j].dts)

\* C13: if every audio packet of the source has PTS >= DTS, every packet
\* that PassthruAudioCutter.segment() returns has PTS >= DTS, after the
\* shift and after the corrections of its PTS and of its DTS.
C13_AudioPtsAtLeastDts ==
  SourcePtsAtLeastDts =>
    \A j \in 1..Len(audio_returned) : audio_returned[j].pts >= audio_returned[j].dts

\* a packet whose DTS was corrected up to its PTS, which was not corrected
C13_Witness ==
  /\ SourcePtsAtLeastDts
  /\ \E j \in 2..Len(audio_returned) :
       /\ Val(audio_track[audio_returned[j].packet].dts)
            <= Val(audio_track[audio_returned[j - 1].packet].dts)
       /\ audio_returned[j].dts = audio_returned[j - 1].dts + 1
       /\ audio_returned[j].pts > audio_returned[j - 1].pts
       /\ audio_returned[j].pts = audio_returned[j].dts

\* C14: over the calls of segment() on one SubtitleCutter, every packet
\* returned has its DTS equal to its PTS, and the DTS of the packets
\* returned strictly increases, also for source packets of equal PTS.
C14_SubtitleDtsStrictlyIncreases ==
  /\ \A j \in 1..Len(subtitle_returned) :
       subtitle_returned[j].dts = subtitle_returned[j].pts
  /\ \A j \in 1..(Len(SubtitleTail) - 1) :
       SubtitleTail[j].dts < SubtitleTail[j + 1].dts

\* C15: the packets the index holds for the audio and the subtitle track
\* keep the PTS, DTS and stream they had when the index was built, however
\* many segments the cutters have been given.
C15_IndexUnchangedByTheCutters ==
  /\ audio_track = track_index.audio
  /\ subtitle_track = track_index.subtitles

\* the positions in the track of the packets returned
ReturnedPositions(pkts) == {pkts[j].packet : j \in 1..Len(pkts)}

\* the audio packets with a DTS whose PTS p has round(s/tb) <= p < round(e/tb)
AudioInRange(s, e) ==
  {n \in 1..Len(audio_track) :
     /\ audio_track[n].dts # None
     /\ Round(s, audio_time_base) <= audio_track[n].pts
     /\ audio_track[n].pts < Round(e, audio_time_base)}

\* the latest call returned the packets of [s, e), each once, in source order
AudioSliceExact ==
  track_call.op = "segment" =>
    /\ \A j \in 1..(Len(audio_returned) - 1) :
         audio_returned[j].packet < audio_returned[j + 1].packet
    /\ ReturnedPositions(audio_returned)
         = AudioInRange(track_call.segment.start_time, track_call.segment.end_time)

\* a call whose segment starts where the segment of the call before ended:
\* the two calls return every packet of the joined range in exactly one of them
AudioBoundaryStep ==
  ( /\ track_call.op = "segment" /\ track_call'.op = "segment"
    /\ track_call.segment.end_time = track_call'.segment.start_time )
  => /\ ReturnedPositions(audio_returned)
          \cap ReturnedPositions(audio_returned') = {}
     /\ ReturnedPositions(audio_returned)
          \cup ReturnedPositions(audio_returned')
          = AudioInRange(track_call.segment.start_time, track_call'.segment.end_time)

\* C35: for a segment [s, e], PassthruAudioCutter.segment() returns, in
\* source order, exactly the audio packets with a DTS whose PTS p satisfies
\* round(s/tb) <= p < round(e/tb); and of two consecutive calls, the second
\* segment starting where the first ended, every packet of the joined range
\* is returned by exactly one.
C35_AudioSliceIsTheRangeAndJoinsAtBoundaries ==
  /\ []AudioSliceExact
  /\ [][AudioBoundaryStep]_vars

\* The same for the segments that start above zero, where the start of the
\* slice is searched for.
AudioSliceExactAboveZero ==
  track_call.segment.start_time > 0 => AudioSliceExact

AudioBoundaryAboveZero ==
  [][track_call.segment.start_time > 0 => AudioBoundaryStep]_vars

\* the subtitle packet list is sorted by PTS
SubtitlesSorted ==
  \A j \in 1..(Len(subtitle_track) - 1) : subtitle_track[j].pts <= subtitle_track[j + 1].pts

\* the first tick at or after a time: PTS * tb >= t exactly when PTS >= CeilTicks(t)
CeilTicks(t) == -((-t) \div subtitle_time_base)

\* int(t / in_tb), the tick SubtitleCutter.segment compares a PTS with
IntTicks(t) == Trunc(t, subtitle_time_base)

\* A call of segment() on a sorted list, Ticks giving the PTS a time is
\* compared as: the cursor does not go back; the packets returned are, in
\* order, the packets past the cursor whose PTS is in the segment, and the
\* cursor ends past them; a packet the cursor passed without returning it
\* lies before the segment, and not before the end of the segment of the
\* call before.
SubtitleCursorStep(Ticks(_)) ==
  (track_call'.op = "segment" /\ track_call' # track_call /\ SubtitlesSorted) =>
    LET i == subtitle_cutter.current_packet_i
        k == subtitle_cutter'.current_packet_i
        s == track_call'.segment
    IN /\ i <= k
       /\ ReturnedPositions(subtitle_returned')
            = {n \in (i + 1)..Len(subtitle_track) :
                 /\ Ticks(s.start_time) <= subtitle_track[n].pts
                 /\ subtitle_track[n].pts < Ticks(s.end_time)}
       /\ \A n \in ReturnedPositions(subtitle_returned') : n <= k
       /\ \A j \in 1..(Len(subtitle_returned') - 1) :
            subtitle_returned'[j].packet < subtitle_returned'[j + 1].packet
       /\ \A n \in ((i + 1)..k) \ ReturnedPositions(subtitle_returned') :
            /\ subtitle_track[n].pts < Ticks(s.start_time)
            /\ track_call.op = "segment" =>
                 subtitle_track[n].pts >= Ticks(track_call.segment.end_time)

MaxVideoPackets == 3   \* packets of the demuxed video stream

MissingDts == -100000000   \* dts of a GOP start without DTS

\* nal_tools.py, lines 106-119
is_safe_h264_keyframe_nal_Any(nal_type) == TRUE
is_safe_h264_keyframe_nal(nal_type) ==
  IF nal_type = None THEN TRUE ELSE Val(nal_type) \in {5, 6, 7, 8}

\* nal_tools.py, lines 122-135
is_safe_h265_keyframe_nal(nal_type) ==
  IF nal_type = None THEN TRUE
  ELSE Val(nal_type) \in {16, 17, 18, 19, 20, 21, 32, 33, 34}

\* lines 124-128: the NAL type is classified for H.264 and H.265 only
ClassifiedNal(codec, packet) ==
  IF codec \in {"hevc", "h264"} THEN packet.nal_type ELSE None

\* lines 131-138
is_safe_keyframe(codec, first_keyframe, nal_type) ==
  IF first_keyframe THEN TRUE
  ELSE IF codec = "hevc" THEN is_safe_h265_keyframe_nal(nal_type)
  ELSE IF codec = "h264" THEN is_safe_h264_keyframe_nal(nal_type)
  ELSE TRUE

\* lines 108-113: the locals of the loop; gop_start_packets is not in the
\* source: it remembers which packet made each entry of the GOP arrays
IndexStart ==
  [first_keyframe |-> TRUE, last_seen_video_dts |-> None, frame_pts |-> <<>>,
   video_keyframe_indices |-> <<>>, gop_start_times_dts |-> <<>>,
   gop_end_times_dts |-> <<>>, gop_start_nal_types |-> <<>>,
   gop_start_packets |-> <<>>]

\* lines 139-146: a keyframe that starts a GOP
StartGop(st, codec, packet, n) ==
  [st EXCEPT
     !.video_keyframe_indices = Append(@, Len(st.frame_pts)),
     !.gop_start_times_dts =
        Append(@, IF packet.dts # None THEN Val(packet.dts) ELSE MissingDts),
     !.gop_start_nal_types = Append(@, ClassifiedNal(codec, packet)),
     !.gop_end_times_dts =
        IF st.last_seen_video_dts # None
        THEN Append(@, Val(st.last_seen_video_dts)) ELSE @,
     !.gop_start_packets = Append(@, n)]

\* lines 123-138
IndexKeyframe(st, codec, packet, n) ==
  IF is_safe_keyframe(codec, st.first_keyframe, ClassifiedNal(codec, packet))
  THEN [StartGop(st, codec, packet, n) EXCEPT !.first_keyframe = FALSE]
  ELSE [st EXCEPT !.first_keyframe = FALSE]

\* lines 147-148
SeenVideoPacket(st, packet) ==
  [st EXCEPT !.last_seen_video_dts = packet.dts,
             !.frame_pts = Append(@, Val(packet.pts))]

\* lines 116-148: one packet of the video stream
IndexPacket(st, codec, packet, n) ==
  IF packet.pts = None THEN st
  ELSE IF packet.is_keyframe
  THEN SeenVideoPacket(IndexKeyframe(st, codec, packet, n), packet)
  ELSE SeenVideoPacket(st, packet)

\* lines 115-157
RECURSIVE IndexLoop(_, _, _, _)
IndexLoop(st, codec, packets, n) ==
  IF n > Len(packets) THEN st
  ELSE IndexLoop(IndexPacket(st, codec, packets[n], n), codec, packets, n + 1)

\* np.sort of a list of numbers
np_sort_Unsorted(arr) == arr
RECURSIVE np_sort(_)
np_sort(arr) ==
  IF arr = <<>> THEN <<>>
  ELSE LET j == CHOOSE i \in 1..Len(arr) : \A k \in 1..Len(arr) : arr[i] <= arr[k]
       IN <<arr[j]>> \o np_sort(SubSeq(arr, 1, j - 1) \o SubSeq(arr, j + 1, Len(arr)))

\* line 161
VideoFrameTimes(frame_pts) ==
  [k \in 1..Len(frame_pts) |-> np_sort(frame_pts)[k] * in_time_base]

\* lines 159-163
IndexEnd(st, start_time, duration) ==
  [start_time |-> start_time, duration |-> duration,
   video_keyframe_indices |-> st.video_keyframe_indices,
   gop_start_times_dts |-> st.gop_start_times_dts,
   gop_end_times_dts |->
     Append(st.gop_end_times_dts,
            IF st.last_seen_video_dts # None THEN Val(st.last_seen_video_dts)
            ELSE None),
   gop_start_nal_types |-> st.gop_start_nal_types,
   video_frame_times |-> VideoFrameTimes(st.frame_pts),
   gop_start_times_pts_s |->
     [g \in 1..Len(st.video_keyframe_indices) |->
        VideoFrameTimes(st.frame_pts)[st.video_keyframe_indices[g] + 1]],
   gop_start_packets |-> st.gop_start_packets]

\* the value _fill_hevc_picture_nal_types takes for an entry to fill
PlaceholderNal == -1

\* line 181
indices_to_fill(self) ==
  {i \in 0..(Len(self.gop_start_nal_types) - 1) :
     self.gop_start_nal_types[i + 1] = Some(PlaceholderNal)}

\* lines 212-227: a packet that is no keyframe while a picture is looked for
FillPicture(f, to_fill, packet) ==
  IF packet.nal_type # None /\ Val(packet.nal_type) <= 21
  THEN LET current_keyframe_idx == f.fs.keyframe_index - 1
           hit   == current_keyframe_idx \in to_fill
           found == f.fs.found_pictures + (IF hit THEN 1 ELSE 0)
       IN [self |-> IF hit
                    THEN [f.self EXCEPT
                            !.gop_start_nal_types[current_keyframe_idx + 1] = packet.nal_type]
                    ELSE f.self,
           fs |-> [f.fs EXCEPT !.found_pictures = found,
                               !.looking_for_picture = FALSE,
                               !.done = (found >= Cardinality(to_fill))]]
  ELSE f

\* lines 198-227: one packet of the second pass
FillPacket(f, to_fill, packet) ==
  IF packet.pts = None THEN f
  ELSE IF packet.is_keyframe
  THEN [f EXCEPT !.fs.looking_for_picture = (@ \/ f.fs.keyframe_index \in to_fill),
                 !.fs.keyframe_index = @ + 1]
  ELSE IF f.fs.looking_for_picture THEN FillPicture(f, to_fill, packet)
  ELSE f

\* lines 198-227: the second pass over the packets, up to its break
RECURSIVE FillLoop(_, _, _, _)
FillLoop(f, to_fill, packets, n) ==
  IF n > Len(packets) \/ f.fs.done THEN f.self
  ELSE FillLoop(FillPacket(f, to_fill, packets[n]), to_fill, packets, n + 1)

\* lines 172-230; fs holds the locals of the second pass (192-196), done
\* its break
_fill_hevc_picture_nal_types(self, packets, codec) ==
  IF codec # "hevc" \/ indices_to_fill(self) = {} THEN self
  ELSE FillLoop([self |-> self,
                 fs |-> [keyframe_index |-> 0, looking_for_picture |-> FALSE,
                         found_pictures |-> 0, done |-> FALSE]],
                indices_to_fill(self), packets, 1)

\* lines 57-170, for a file with a video stream
MediaContainer(packets, codec, start_time, duration) ==
  _fill_hevc_picture_nal_types(
    IndexEnd(IndexLoop(IndexStart, codec, packets, 1), start_time, duration),
    packets, codec)

(***************************************************************************)
(* The specification of the index: a file of up to MaxVideoPackets video   *)
(* packets of any order of PTS and DTS is opened.                          *)
(***************************************************************************)
CodecNames == {"h264", "hevc", "mpeg2video"}

\* what the classifiers can return for a keyframe: nothing, a slice that is
\* no random access point, an IDR slice (H.264), or a CRA picture or a VPS,
\* the first of the parameter sets of a packet that holds no picture (H.265)
NalTypes(codec) ==
  IF codec = "h264" THEN {None, Some(1), Some(5)}
  ELSE IF codec = "hevc" THEN {None, Some(1), Some(21), Some(32)}
  ELSE {None}

\* ... and for a packet that is no keyframe: nothing, or for H.265 a
\* trailing picture
SliceTypes(codec) == IF codec = "hevc" THEN {None, Some(1)} ELSE {None}

\* the PTS a packet at place j of n can have: none, or that of a neighbouring
\* place (pictures are reordered by at most one place, and two packets may
\* carry the same PTS)
PtsAt(j, n) == {None} \cup {Some(q) : q \in {j - 2, j - 1, j} \cap 0..(n - 1)}

\* is_keyframe and the NAL type of a packet
KeyframeFlags(codec) ==
  {<<FALSE, t>> : t \in SliceTypes(codec)} \cup {<<TRUE, t>> : t \in NalTypes(codec)}

\* the DTS of the packets of a stream: increasing, equal in pairs, or
\* decreasing
DtsOrders(n) ==
  {[j \in 1..n |-> j - 1], [j \in 1..n |-> (j - 1) \div 2], [j \in 1..n |-> n - j]}

\* the stream of n packets with the PTS and flags of s and the DTS of d
VideoStream(s, d, n) ==
  [j \in 1..n |-> [pts |-> s[j][1], dts |-> Some(d[j]),
                   is_keyframe |-> s[j][2][1], nal_type |-> s[j][2][2]]]

IndexInit ==
  /\ codec_name \in CodecNames
  /\ \E n \in 1..MaxVideoPackets :
       \E s \in [1..n -> (UNION {PtsAt(j, n) : j \in 1..n}) \X KeyframeFlags(codec_name)],
          d \in DtsOrders(n) :
         /\ \A j \in 1..n : s[j][1] \in PtsAt(j, n)
         /\ video_packets = VideoStream(s, d, n)
  /\ opened = <<>>
  /\ frame_time = <<>>
  /\ index_pc = "file"
  /\ PlanIdle /\ CutterIdle /\ DriverIdle /\ TracksIdle /\ FetchIdle
  /\ media_container = <<>>

\* MediaContainer(path)
OpenContainer ==
  /\ index_pc = "file"
  /\ opened' = MediaContainer(video_packets, codec_name, 0,
                              Len(video_packets) * in_time_base)
  /\ index_pc' = "indexed"
  /\ UNCHANGED <<video_packets, codec_name, frame_time, planVars, cutVars,
                 driveVars, trackVars, fetchVars>>

IndexNext == OpenContainer

SpecIndex == IndexInit /\ [][IndexNext]_vars

(***************************************************************************)
(* get_next_frame_time (media_container.py, lines 237-251), asked of the   *)
(* index of a file whose frames lie anywhere on the first MaxFramePts + 1  *)
(* places, with the start_time and duration the container reports.         *)
(***************************************************************************)
MaxFramePts == 3   \* largest PTS of a frame of the file

\* lines 245-251: t lies after the first frame and not after the last
NearestNeighbour_Later(self, t, idx) ==
  IF t - self.video_frame_times[idx] < self.video_frame_times[idx + 1] - t
  THEN self.video_frame_times[idx] - self.start_time
  ELSE self.video_frame_times[idx + 1] - self.start_time
NearestNeighbour(self, t, idx) ==
  IF t - self.video_frame_times[idx] <= self.video_frame_times[idx + 1] - t
  THEN self.video_frame_times[idx] - self.start_time
  ELSE self.video_frame_times[idx + 1] - self.start_time

\* lines 239-251, after t += self.start_time; idx is 0-based as in the source
FrameTimeAt(self, t, idx) ==
  IF idx = Len(self.video_frame_times) THEN self.duration
  ELSE IF idx = 0 THEN self.video_frame_times[1] - self.start_time
  ELSE NearestNeighbour(self, t, idx)

\* lines 237-251
get_next_frame_time(self, t) ==
  FrameTimeAt(self, t + self.start_time,
              SearchSorted(self.video_frame_times, t + self.start_time))

\* a file of frames with the PTS in S, every packet a keyframe
RECURSIVE FramePackets(_, _)
FramePackets(S, n) ==
  IF S = {} THEN <<>>
  ELSE LET q == CHOOSE x \in S : \A y \in S : x <= y
       IN <<[pts |-> Some(q), dts |-> Some(n), is_keyframe |-> TRUE, nal_type |-> None]>>
          \o FramePackets(S \ {q}, n + 1)

QuarterFrame == in_time_base \div 4

StartTimes == {0, QuarterFrame, in_time_base}
Durations == {k * in_time_base : k \in 1..(MaxFramePts + 1)}
QueryTimes == {k * QuarterFrame : k \in (-4)..(4 * MaxFramePts + 4)}

FrameTimeInit ==
  /\ codec_name = "mpeg2video"
  /\ video_packets \in {FramePackets(S, 0) : S \in (SUBSET (0..MaxFramePts)) \ {{}}}
  /\ \E start_time \in StartTimes, duration \in Durations :
       opened = MediaContainer(video_packets, codec_name, start_time, duration)
  /\ frame_time = <<>>
  /\ index_pc = "indexed"
  /\ PlanIdle /\ CutterIdle /\ DriverIdle /\ TracksIdle /\ FetchIdle
  /\ media_container = <<>>

GetNextFrameTime ==
  /\ index_pc = "indexed"
  /\ \E t \in QueryTimes :
       frame_time' = [t |-> t, result |-> get_next_frame_time(opened, t)]
  /\ UNCHANGED <<video_packets, codec_name, opened, index_pc, planVars, cutVars,
                 driveVars, trackVars, fetchVars>>

FrameTimeNext == GetNextFrameTime

SpecFrameTime == FrameTimeInit /\ [][FrameTimeNext]_vars

(***************************************************************************)
(* Properties of the index.                                                *)
(***************************************************************************)
Indexed == index_pc = "indexed" /\ opened # <<>>

DistinctPts ==
  /\ \A j \in 1..Len(video_packets) : video_packets[j].pts # None
  /\ \A j, k \in 1..Len(video_packets) :
       j # k => video_packets[j].pts # video_packets[k].pts

NonDecreasingDts ==
  \A j \in 1..(Len(video_packets) - 1) :
    Val(video_packets[j].dts) <= Val(video_packets[j + 1].dts)

NumIndexedGops == Len(opened.gop_start_times_dts)

\* C16: after the index is built from a video packet sequence with distinct
\* PTS and non-decreasing DTS, every pair of consecutive GOPs i, i+1 has
\* gop_start_pts[i] < gop_start_pts[i+1] and
\* gop_end_dts[i] <= gop_start_dts[i+1].
C16_ConsecutiveGopsAreOrdered ==
  (Indexed /\ DistinctPts /\ NonDecreasingDts) =>
    \A i \in 1..(NumIndexedGops - 1) :
      /\ opened.gop_start_times_pts_s[i] < opened.gop_start_times_pts_s[i + 1]
      /\ opened.gop_end_times_dts[i] <= opened.gop_start_times_dts[i + 1]

\* the index of a file with reordered pictures that does not begin with a
\* keyframe and has two GOPs
C16_Witness ==
  /\ Indexed /\ DistinctPts /\ NonDecreasingDts
  /\ NumIndexedGops >= 2
  /\ ~video_packets[1].is_keyframe
  /\ \E j \in 1..(Len(video_packets) - 1) :
       Val(video_packets[j].pts) > Val(video_packets[j + 1].pts)

\* the safe sets of NAL types, as the specification lists them
SafeNalTypes(codec) ==
  IF codec = "h264" THEN {5, 6, 7, 8}
  ELSE {16, 17, 18, 19, 20, 21, 32, 33, 34}

SafeOrUnknown(codec, nal_type) ==
  nal_type = None \/ Val(nal_type) \in SafeNalTypes(codec)

Keyframes == {j \in 1..Len(video_packets) : video_packets[j].is_keyframe}
KeyframesWithPts == {j \in Keyframes : video_packets[j].pts # None}
First(S) == CHOOSE j \in S : \A k \in S : j <= k

Boundaries == {opened.gop_start_packets[g] : g \in 1..NumIndexedGops}

SafeSetsAsListed ==
  \A t \in 0..63 :
    /\ is_safe_h264_keyframe_nal(Some(t)) <=> t \in SafeNalTypes("h264")
    /\ is_safe_h265_keyframe_nal(Some(t)) <=> t \in SafeNalTypes("hevc")

\* C17 as stated: for H.264 and H.265 sources every GOP boundary of the index
\* is the very first keyframe packet of the file or a keyframe packet whose
\* classified NAL type is in the codec's safe set or unknown; no other
\* keyframe packet adds an entry to the GOP arrays.
C17_BoundaryIsFirstKeyframeOfFileOrSafe ==
  (Indexed /\ codec_name \in {"h264", "hevc"}) =>
    /\ SafeSetsAsListed
    /\ Len(opened.gop_start_nal_types) = NumIndexedGops
    /\ Cardinality(Boundaries) = NumIndexedGops
    /\ \A n \in Boundaries :
         /\ n \in Keyframes
         /\ \/ n = First(Keyframes)
            \/ SafeOrUnknown(codec_name, video_packets[n].nal_type)

\* C17, amended: for H.264 and H.265 sources every GOP boundary of the index
\* is the first keyframe packet that carries a PTS or a keyframe packet
\* whose classified NAL type is in the codec's safe set or unknown; no other
\* keyframe packet adds an entry to the GOP arrays.
C17_BoundaryIsFirstKeyframeWithPtsOrSafe ==
  (Indexed /\ codec_name \in {"h264", "hevc"}) =>
    /\ SafeSetsAsListed
    /\ Len(opened.gop_start_nal_types) = NumIndexedGops
    /\ Cardinality(Boundaries) = NumIndexedGops
    /\ \A n \in Boundaries :
         /\ n \in KeyframesWithPts
         /\ \/ n = First(KeyframesWithPts)
            \/ SafeOrUnknown(codec_name, video_packets[n].nal_type)

\* a first keyframe of unsafe NAL type starts a GOP, a later one with a safe
\* type starts the next, and a keyframe with an unsafe type starts none
C17_Witness ==
  /\ Indexed /\ codec_name \in {"h264", "hevc"}
  /\ NumIndexedGops = 2
  /\ ~SafeOrUnknown(codec_name, video_packets[First(KeyframesWithPts)].nal_type)
  /\ \E n \in KeyframesWithPts \ Boundaries :
       ~SafeOrUnknown(codec_name, video_packets[n].nal_type)

\* The place in the file of the last packet of GOP i (1-based) that the index
\* has seen: the last packet with a PTS before the next GOP's first packet.
LastPacketOfGop(i) ==
  LET hi == IF i < NumIndexedGops THEN opened.gop_start_packets[i + 1] - 1
            ELSE Len(video_packets)
  IN CHOOSE j \in opened.gop_start_packets[i]..hi :
       /\ video_packets[j].pts # None
       /\ \A k \in (j + 1)..hi : video_packets[k].pts = None

\* C25: after index construction the arrays gop_start_dts, gop_end_dts,
\* gop_start_nal_types and gop_start_pts have the same length, and for every
\* GOP i gop_end_dts[i] is the DTS of the last video packet of GOP i and
\* gop_start_dts[i] <= gop_end_dts[i], whether or not the first video packet
\* is a keyframe (for streams whose DTS do not decrease).
C25_GopArraysAligned ==
  (Indexed /\ NonDecreasingDts) =>
    /\ Len(opened.gop_end_times_dts) = NumIndexedGops
    /\ Len(opened.gop_start_nal_types) = NumIndexedGops
    /\ Len(opened.gop_start_times_pts_s) = NumIndexedGops
    /\ \A i \in 1..NumIndexedGops :
         /\ opened.gop_end_times_dts[i] = Val(video_packets[LastPacketOfGop(i)].dts)
         /\ opened.gop_start_times_dts[i] <= opened.gop_end_times_dts[i]

\* The same for the files whose first packet with a PTS is a keyframe.
C25_GopArraysAlignedWhenKeyframeFirst ==
  (Indexed /\ NonDecreasingDts /\ KeyframesWithPts # {}
     /\ \A j \in 1..(First(KeyframesWithPts) - 1) : video_packets[j].pts = None) =>
    /\ Len(opened.gop_end_times_dts) = NumIndexedGops
    /\ Len(opened.gop_start_nal_types) = NumIndexedGops
    /\ Len(opened.gop_start_times_pts_s) = NumIndexedGops
    /\ \A i \in 1..NumIndexedGops :
         /\ opened.gop_end_times_dts[i] = Val(video_packets[LastPacketOfGop(i)].dts)
         /\ opened.gop_start_times_dts[i] <= opened.gop_end_times_dts[i]

\* the NAL types of the parameter sets: VPS, SPS, PPS
ParameterSetTypes == {32, 33, 34}

\* The packets after the keyframe of GOP g (1-based) and before the next
\* keyframe that are no keyframes, carry a PTS and hold a picture NAL.
FollowingPictures(g) ==
  LET from == opened.gop_start_packets[g]
  IN {n \in (from + 1)..Len(video_packets) :
        /\ video_packets[n].pts # None
        /\ video_packets[n].nal_type # None
        /\ Val(video_packets[n].nal_type) <= 21
        /\ \A k \in (from + 1)..n :
             video_packets[k].pts # None => ~video_packets[k].is_keyframe}

\* C34: in the index of an H.265 file, every GOP whose keyframe packet holds
\* parameter sets only and that has a picture in the packets that follow in
\* the same GOP has as its gop_start_nal_type the NAL type of the first such
\* picture, which is 21 at most, and not the type of a parameter set.
C34_DeferredGopStartGetsPictureNalType ==
  (Indexed /\ codec_name = "hevc") =>
    \A g \in 1..Len(opened.gop_start_packets) :
      LET key == video_packets[opened.gop_start_packets[g]]
      IN (/\ key.nal_type # None
          /\ Val(key.nal_type) \in ParameterSetTypes
          /\ FollowingPictures(g) # {}) =>
           /\ opened.gop_start_nal_types[g] =
                video_packets[CHOOSE n \in FollowingPictures(g) :
                                \A m \in FollowingPictures(g) : n <= m].nal_type
           /\ Val(opened.gop_start_nal_types[g]) \notin ParameterSetTypes

\* What the index holds instead: every entry of gop_start_nal_types is the
\* NAL type its keyframe packet was classified with in the first pass.
GopStartNalTypeIsOfTheKeyframePacket ==
  Indexed =>
    \A g \in 1..Len(opened.gop_start_packets) :
      opened.gop_start_nal_types[g] =
        ClassifiedNal(codec_name, video_packets[opened.gop_start_packets[g]])

Asked == index_pc = "indexed" /\ frame_time # <<>>
FrameTimes == {opened.video_frame_times[k] : k \in 1..Len(opened.video_frame_times)}
Distance(a, b) == IF a >= b THEN a - b ELSE b - a
Sought == frame_time.t + opened.start_time

\* C20: get_next_frame_time(t) returns, relative to start_time, the frame PTS
\* nearest to t + start_time, the earlier one on a tie; for t + start_time at
\* or before the first frame it returns the first frame's time, and for
\* t + start_time after the last frame it returns duration.
C20_NearestFrameTimeClamped ==
  Asked =>
    IF \A f \in FrameTimes : f < Sought
    THEN frame_time.result = opened.duration
    ELSE /\ frame_time.result + opened.start_time \in FrameTimes
         /\ \A f \in FrameTimes :
              \/ Distance(f, Sought)
                   > Distance(frame_time.result + opened.start_time, Sought)
              \/ /\ Distance(f, Sought)
                      = Distance(frame_time.result + opened.start_time, Sought)
                 /\ f >= frame_time.result + opened.start_time
         /\ (\A f \in FrameTimes : Sought <= f) =>
              frame_time.result = opened.video_frame_times[1] - opened.start_time

\* a time half-way between two frames was asked for
C20_Witness ==
  /\ Asked
  /\ \E f, g \in FrameTimes :
       /\ f < g /\ Sought - f = g - Sought
       /\ \A h \in FrameTimes : h <= f \/ h >= g
       /\ frame_time.result = f - opened.start_time

(***************************************************************************)
(* fetch_frame called once per GOP of the index, as                        *)
(* test_fetch_frame_real.py does: the source is indexed by                 *)
(* MediaContainer, a VideoCutter is made, and fetch_frame is called with   *)
(* the DTS range of each GOP in turn and an end_time after every frame.    *)
(* The sources are those of the cutter and the same with the first         *)
(* keyframe cut off, as a recording that begins inside a GOP.              *)
(***************************************************************************)
\* the packets of a source as the indexing loop sees them
Demuxed(src) ==
  [n \in 1..Len(src) |->
     [pts |-> src[n].pts, dts |-> Some(src[n].dts),
      is_keyframe |-> src[n].is_keyframe, nal_type |-> None]]

FetchSources == Sources \cup {Tail(src) : src \in {x \in Sources : ~x[2].is_keyframe}}

\* zip(gop_start_times_dts, gop_end_times_dts): the number of pairs
ZipLen(mc) == Min(Len(mc.gop_start_times_dts), Len(mc.gop_end_times_dts))

\* an end_time later than every frame of the source
LaterThanEveryFrame(src) == (Len(src) + 3) * in_time_base

FetchInit ==
  /\ source \in FetchSources
  /\ media_container = MediaContainer(Demuxed(source), "mpeg2video", 0,
                                      Len(source) * in_time_base)
  /\ video_cutter = VideoCutter
  /\ returned = <<>> /\ call = <<>> /\ prev_dts = <<>> /\ copied_before = <<>>
  /\ run = <<>> /\ cut_pc = "idle"
  /\ fetched = <<>>
  /\ fetch_pc = "fetching"
  /\ fetch_call = <<>> /\ released = <<>>
  /\ PlanIdle /\ DriverIdle /\ TracksIdle /\ IndexIdle

\* lines 58-66 of the test: one pass of its loop
FetchGop ==
  /\ fetch_pc = "fetching"
  /\ Len(fetched) < ZipLen(media_container)
  /\ \E r \in {fetch_frame(source, video_cutter,
                           media_container.gop_start_times_dts[Len(fetched) + 1],
                           media_container.gop_end_times_dts[Len(fetched) + 1],
                           LaterThanEveryFrame(source), None, FALSE)} :
       /\ video_cutter' = r.self
       /\ fetched' = Append(fetched, r.frames)
       /\ fetch_pc' = IF r.hang THEN "hung" ELSE "fetching"
  /\ UNCHANGED <<source, returned, call, prev_dts, copied_before, run, cut_pc,
                 fetch_call, released, planVars, driveVars, trackVars, indexVars>>

FetchNext == FetchGop

SpecFetch == FetchInit /\ [][FetchNext]_vars

(***************************************************************************)
(* Properties of fetch_frame called GOP by GOP.                            *)
(***************************************************************************)
AllGopsFetched == fetch_pc = "fetching" /\ Len(fetched) = ZipLen(media_container)

\* how many times the frame of packet n was yielded
TimesFetched(n) ==
  Cardinality({c \in {<<i, j>> : i \in 1..Len(fetched), j \in 1..(Len(source) + 1)} :
                 c[2] <= Len(fetched[c[1]]) /\ fetched[c[1]][c[2]].packet = n})

RECURSIVE TotalFetched(_)
TotalFetched(calls) ==
  IF calls = <<>> THEN 0 ELSE Len(Head(calls)) + TotalFetched(Tail(calls))

\* C19: after fetch_frame has been called once per GOP, in index order, with
\* the GOP's gop_start_dts and gop_end_dts and an end_time later than every
\* frame, every frame of the source has been yielded exactly once: the
\* number of frames yielded is the number of frames of the source.
C19_EveryFrameFetchedOnce ==
  AllGopsFetched =>
    /\ \A n \in 1..Len(source) : TimesFetched(n) = 1
    /\ TotalFetched(fetched) = Len(source)

\* C27: when fetch_frame is called for GOP i and then for the adjacent GOP
\* i + 1 of an index built from a file that begins with a keyframe, the second
\* fetch is continuous with the first: between the two GOPs the decoder is not
\* flushed and the PTS heap is not cleared.
C27_AdjacentGopsAreContinuous ==
  (fetch_pc = "fetching" /\ Len(fetched) >= 2 /\ source[1].is_keyframe) =>
    /\ ~Val(video_cutter.fetch_start).flushed
    /\ ~Val(video_cutter.fetch_start).cleared

(***************************************************************************)
(* fetch_frame step by step.  The generator is followed through one call   *)
(* on a source of one long GOP, as recode_segment makes it (no priming, no *)
(* packets collected): each packet that fetch_packet yields is decoded and *)
(* pushed, the release loop runs pass by pass, and after fetch_packet's    *)
(* return the decoder is given the terminal null and the heap is drained.  *)
(* released keeps every frame yielded with the heap it was popped from.    *)
(***************************************************************************)
MaxFeed == 18   \* most packets of the long GOP

\* PTS = display position + delay: the usual delay of one frame, or one that
\* puts every PTS after the DTS of the packets still to come
PtsDelays == {1, MaxFeed + 1}

\* display position (from 0) of packet j of n: in order, or I P B P B ...
\* with every P ahead of the B shown before it
Shown(j, n, reorder) ==
  IF ~reorder \/ j = 1 THEN j - 1
  ELSE IF j % 2 = 0 THEN (IF j + 1 <= n THEN j ELSE j - 1)
  ELSE j - 2

LongGop(n, delay, reorder) ==
  [j \in 1..n |-> [dts |-> j - 1, pts |-> Some(Shown(j, n, reorder) + delay),
                   is_keyframe |-> (j = 1), leading |-> FALSE]]

\* end_time, in frames: among the first frames, in the middle, after the last
EndFrames(n, delay) == {delay + 1, delay + n \div 2, delay + n + 1}

ReleaseInit ==
  /\ \E n \in (BUFFERED_FRAMES_COUNT + 1)..MaxFeed, delay \in PtsDelays, reorder \in BOOLEAN :
       \E e \in EndFrames(n, delay) :
         /\ source = LongGop(n, delay, reorder)
         /\ fetch_call = [gop_start_dts |-> 0, gop_end_dts |-> n - 1,
                          end_time |-> e * in_time_base, decoder_priming_dts |-> None,
                          start_dts |-> 0, current_dts |-> 0, begun |-> FALSE,
                          fed |-> <<>>]
  /\ media_container = MediaContainer(Demuxed(source), "mpeg2video", 0,
                                      Len(source) * in_time_base)
  /\ video_cutter = VideoCutter
  /\ returned = <<>> /\ call = <<>> /\ prev_dts = <<>> /\ copied_before = <<>>
  /\ run = <<>> /\ cut_pc = "idle"
  /\ fetched = <<>>
  /\ released = <<>>
  /\ fetch_pc = "called"
  /\ PlanIdle /\ DriverIdle /\ TracksIdle /\ IndexIdle

\* lines 711-735
StartFetch ==
  /\ fetch_pc = "called"
  /\ \E st \in {FetchFrameStart(video_cutter, fetch_call.gop_start_dts,
                                fetch_call.gop_end_dts, fetch_call.decoder_priming_dts)} :
       /\ video_cutter' = FetchFrameSeek(source, st)
       /\ fetch_call' = [fetch_call EXCEPT !.start_dts = st.start_dts,
                                           !.current_dts = fetch_call.gop_start_dts]
  /\ fetch_pc' = "packet"
  /\ UNCHANGED <<source, returned, call, prev_dts, copied_before, run, cut_pc,
                 fetched, released, planVars, driveVars, trackVars, indexVars>>

\* lines 737-758: the next packet of fetch_packet is decoded and its frame
\* pushed; when fetch_packet returns, the for loop is over
NextPacket ==
  /\ fetch_pc = "packet"
  /\ \E r \in {IF fetch_call.begun
               THEN FetchLoop(source, video_cutter, fetch_call.start_dts,
                              fetch_call.gop_end_dts)
               ELSE FetchStart(source, video_cutter, fetch_call.start_dts,
                               fetch_call.gop_end_dts)} :
       IF r.kind = "yield"
       THEN /\ video_cutter' =
                 [r.self EXCEPT !.frame_buffer = HeapPush(@, Decode(source, r.packet))]
            /\ fetch_call' = [fetch_call EXCEPT !.begun = TRUE,
                                                !.current_dts = source[r.packet].dts,
                                                !.fed = Append(@, r.packet)]
            /\ fetch_pc' = "release"
       ELSE /\ video_cutter' = r.self
            /\ fetch_call' = [fetch_call EXCEPT !.begun = TRUE]
            /\ fetch_pc' = IF r.kind = "hang" THEN "hung" ELSE "flush"
  /\ UNCHANGED <<source, returned, call, prev_dts, copied_before, run, cut_pc,
                 fetched, released, planVars, driveVars, trackVars, indexVars>>

\* what released keeps of a yield: the frame, the heap it was the head of,
\* current_dts, and whether decode(None) had been called
Yielded(fed_null) ==
  [frame |-> video_cutter.frame_buffer[1], heap |-> video_cutter.frame_buffer,
   current_dts |-> fetch_call.current_dts, fed_null |-> fed_null]

\* lines 760-776: one pass of the release loop
Release ==
  /\ fetch_pc = "release"
  /\ \E k \in {ReleaseOne(video_cutter.frame_buffer, fetch_call.current_dts,
                          fetch_call.end_time)} :
       /\ fetch_pc' = CASE k = "yield" -> "release"
                        [] k = "return" -> "done"
                        [] OTHER -> "packet"
       /\ released' = IF k = "yield" THEN Append(released, Yielded(FALSE)) ELSE released
       /\ video_cutter' = IF k = "yield"
                          THEN [video_cutter EXCEPT !.frame_buffer = Tail(@)]
                          ELSE video_cutter
  /\ UNCHANGED <<source, returned, call, prev_dts, copied_before, run, cut_pc,
                 fetched, fetch_call, planVars, driveVars, trackVars, indexVars>>

\* lines 778-784: decoder.decode(None); this decoder holds nothing back
FlushDecoder ==
  /\ fetch_pc = "flush"
  /\ fetch_pc' = "drain"
  /\ UNCHANGED <<source, video_cutter, returned, call, prev_dts, copied_before, run,
                 cut_pc, fetched, fetch_call, released, planVars, driveVars,
                 trackVars, indexVars>>

\* lines 786-801: one pass of the final loop
Drain ==
  /\ fetch_pc = "drain"
  /\ IF DrainOne(video_cutter.frame_buffer, fetch_call.end_time)
     THEN /\ released' = Append(released, Yielded(TRUE))
          /\ video_cutter' = [video_cutter EXCEPT !.frame_buffer = Tail(@)]
          /\ fetch_pc' = "drain"
     ELSE /\ fetch_pc' = "done"
          /\ UNCHANGED <<released, video_cutter>>
  /\ UNCHANGED <<source, returned, call, prev_dts, copied_before, run, cut_pc,
                 fetched, fetch_call, planVars, driveVars, trackVars, indexVars>>

ReleaseNext == StartFetch \/ NextPacket \/ Release \/ FlushDecoder \/ Drain

SpecRelease == ReleaseInit /\ [][ReleaseNext]_vars

(***************************************************************************)
(* Properties of the release of frames.                                    *)
(***************************************************************************)
InFetchFrame == fetch_call # <<>>

\* The steps yield the frames that fetch_frame, taken as one operator, yields,
\* and leave its heap.
StepsAgreeWithFetchFrame ==
  (InFetchFrame /\ fetch_pc = "done") =>
    \E r \in {fetch_frame(source, VideoCutter, fetch_call.gop_start_dts,
                          fetch_call.gop_end_dts, fetch_call.end_time,
                          fetch_call.decoder_priming_dts, FALSE)} :
      /\ r.frames = [k \in 1..Len(released) |-> released[k].frame]
      /\ r.self = video_cutter

\* C28: while packets are fed, a frame is yielded only if it has the least PTS
\* of the heap, at least BUFFERED_FRAMES_COUNT frames are in the heap and its
\* PTS is at most the DTS of the packet fed last; the frames yielded after the
\* terminal null come in ascending PTS order; every frame yielded has its PTS
\* before end_time, and a decoded frame at or after end_time is in the heap.
C28_FramesReleasedInOrderBeforeEndTime ==
  InFetchFrame =>
    /\ \A k \in 1..Len(released) :
         /\ \A j \in 1..Len(released[k].heap) :
              released[k].frame.pts <= released[k].heap[j].pts
         /\ released[k].frame.pts * in_time_base < fetch_call.end_time
         /\ ~released[k].fed_null =>
              /\ Len(released[k].heap) >= BUFFERED_FRAMES_COUNT
              /\ released[k].frame.pts <= released[k].current_dts
    /\ \A k, l \in 1..Len(released) :
         (k < l /\ released[k].fed_null) =>
           (released[l].fed_null /\ released[k].frame.pts <= released[l].frame.pts)
    /\ \A i \in 1..Len(fetch_call.fed) :
         (Val(source[fetch_call.fed[i]].pts) * in_time_base >= fetch_call.end_time) =>
           \E j \in 1..Len(video_cutter.frame_buffer) :
             video_cutter.frame_buffer[j].packet = fetch_call.fed[i]

\* A call that has ended after it yielded frames while packets were fed and
\* frames after the terminal null, and left frames at or after end_time in
\* the heap.
C28_Witness ==
  /\ InFetchFrame /\ fetch_pc = "done"
  /\ \E k \in 1..Len(released) : ~released[k].fed_null
  /\ \E k \in 1..Len(released) : released[k].fed_null
  /\ \E j \in 1..Len(video_cutter.frame_buffer) :
       video_cutter.frame_buffer[j].pts * in_time_base >= fetch_call.end_time

(***************************************************************************)
(*                 _fix_packet_timestamps packet by packet                 *)
(*                                                                         *)
(* The cutter as constructed is handed one packet after another, as        *)
(* segment() and finish() hand it the packets they return: packets of the  *)
(* remuxer and of the encoder, with a DTS, without one, with one below     *)
(* -900000 or above 10^12, and with or without a PTS.  call keeps the      *)
(* packet as it came, the last_dts it met, and whether a packet with a PTS *)
(* and no usable DTS came before it.                                       *)
(***************************************************************************)
MaxStamp == 3   \* largest timestamp of a packet handed to the repair

Stamps == (-2)..MaxStamp

RepairPackets ==
  {[pts |-> p, dts |-> d, packet |-> 0] :
     p \in {None} \cup {Some(v) : v \in Stamps},
     d \in {None, GarbageDts, Some(DtsFloor - 1)} \cup {Some(v) : v \in Stamps}}

\* lines 360-361: the DTS is absent or is taken for absent
DtsAbsent(packet) ==
  \/ packet.dts = None
  \/ packet.dts = GarbageDts
  \/ Val(packet.dts) < DtsFloor

RepairInit ==
  /\ video_cutter = VideoCutter
  /\ source = <<>> /\ returned = <<>>
  /\ call = [op |-> "none", packet |-> None, last_dts |-> NoDts, absent_before |-> FALSE]
  /\ prev_dts = <<>> /\ copied_before = <<>> /\ run = <<>>
  /\ cut_pc = "repair"
  /\ media_container = <<>>
  /\ PlanIdle /\ DriverIdle /\ SideIdle

\* self._fix_packet_timestamps(packet)
Repair ==
  /\ cut_pc = "repair"
  /\ video_cutter.last_dts <= MaxStamp
  /\ \E packet \in RepairPackets :
     \E r \in {_fix_packet_timestamps(video_cutter.last_dts, packet)} :
       /\ video_cutter' = [video_cutter EXCEPT !.last_dts = r.last_dts]
       /\ returned' = <<r.packet>>
       /\ call' = [op |-> "repair", packet |-> Some(packet),
                    last_dts |-> video_cutter.last_dts,
                    absent_before |->
                      \/ call.absent_before
                      \/ (call.op = "repair" /\ DtsAbsent(Val(call.packet))
                            /\ Val(call.packet).pts # None)]
  /\ UNCHANGED <<source, prev_dts, copied_before, run, cut_pc,
                 planVars, driveVars, sideVars>>

RepairNext == Repair

SpecRepair == RepairInit /\ [][RepairNext]_vars

\* The latest packet came with a PTS and without a usable DTS.
RepairedAbsent ==
  /\ call.op = "repair"
  /\ DtsAbsent(Val(call.packet))
  /\ Val(call.packet).pts # None

RepairedInOrder ==
  /\ call.op = "repair"
  /\ ~DtsAbsent(Val(call.packet))
  /\ Val(Val(call.packet).dts) > call.last_dts
  /\ Val(call.packet).pts # None
  /\ Val(Val(call.packet).dts) <= Val(Val(call.packet).pts)

\* C39: a packet whose DTS is present, within [-900000, 10^12], above the
\* last DTS given and not above its PTS leaves the repair with the PTS and DTS
\* it came with, and of the cutter only last_dts changes, to that DTS.
C39_PacketInOrderIsLeftAlone ==
  RepairedInOrder =>
    /\ returned = <<Val(call.packet)>>
    /\ video_cutter = [VideoCutter EXCEPT !.last_dts = Val(Val(call.packet).dts)]

\* A packet with its PTS above its DTS that follows a repaired packet with a
\* DTS directly below its own.
C39_Witness ==
  /\ RepairedInOrder
  /\ call.last_dts >= 0
  /\ Val(Val(call.packet).dts) = call.last_dts + 1
  /\ Val(Val(call.packet).pts) > Val(Val(call.packet).dts)

(***************************************************************************)
(*                 get_h265_nal_unit_type (nal_tools.py)                   *)
(*                                                                         *)
(* A packet is its bytes.  The packets given to the function hold up to    *)
(* MaxNals NAL units, each a two-byte header (type, layer 0, temporal id   *)
(* 0) and a payload without zero bytes: an access unit delimiter of three  *)
(* bytes, or a slice or parameter set of five or of 300 bytes.  They are   *)
(* framed with four-byte lengths (MP4, Matroska), or with start codes      *)
(* (Annex B): four bytes before each unit, or four before the first and    *)
(* three before the others.  call keeps the units, the framing, the bytes  *)
(* and, once the packet is classified, the value returned.                 *)
(***************************************************************************)
MaxNals == 2   \* NAL units of a packet

NalUnits ==
  {[type |-> 35, len |-> 3]}
    \cup {[type |-> t, len |-> l] : t \in {1, 19, 21, 32}, l \in {5, 300}}

NalLists == UNION {[1..n -> NalUnits] : n \in 1..MaxNals}

Framings == {"length", "annexb4", "annexb43"}

\* the bytes of a NAL unit: nal_unit_header and the payload
NalBytes(nal) == <<nal.type * 2, 1>> \o [j \in 1..(nal.len - 2) |-> 128]

start_code_4 == <<0, 0, 0, 1>>
start_code_3 == <<0, 0, 1>>

\* what precedes the k-th unit of a packet
Framed(nal, k, framing) ==
  IF framing = "length" THEN <<0, 0, nal.len \div 256, nal.len % 256>>
  ELSE IF framing = "annexb4" \/ k = 1 THEN start_code_4
  ELSE start_code_3

RECURSIVE PacketData(_, _, _)
PacketData(nals, k, framing) ==
  IF k > Len(nals) THEN <<>>
  ELSE Framed(nals[k], k, framing) \o NalBytes(nals[k]) \o PacketData(nals, k + 1, framing)

\* int.from_bytes(packet_data[i:i+4], byteorder='big'), for i + 4 <= len;
\* a value of 2^24 or more stands for itself as 2^24: it is only compared
\* with lengths of packets, which are far below.
FromBytes(packet_data, i) ==
  IF packet_data[i + 1] > 0 THEN 16777216
  ELSE packet_data[i + 2] * 65536 + packet_data[i + 3] * 256 + packet_data[i + 4]

\* (byte >> 1) & 0x3F
NalTypeOf(byte) == (byte \div 2) % 64

\* packet_data.find(code, pos): the first index from pos on where code
\* stands, or -1
Find(packet_data, code, pos) ==
  LET at == {j \in pos..(Len(packet_data) - Len(code)) :
               \A c \in 1..Len(code) : packet_data[j + c] = code[c]}
  IN IF at = {} THEN -1 ELSE CHOOSE j \in at : \A x \in at : j <= x

\* lines 44-55 and 88-100: CRA first, then the first of 0..15, then the
\* first NAL type found
Prioritise_FirstFound(nal_types_found) == Some(nal_types_found[1])

Prioritise(nal_types_found) ==
  LET n   == Len(nal_types_found)
      pic == {j \in 1..n : nal_types_found[j] \in 0..15}
  IN IF \E j \in 1..n : nal_types_found[j] = 21 THEN Some(21)
     ELSE IF pic # {}
     THEN Some(nal_types_found[CHOOSE j \in pic : \A x \in pic : j <= x])
     ELSE Some(nal_types_found[1])

\* lines 31-41: the loop over the length-prefixed units from index i; ret
\* is the value of a return inside the loop
RECURSIVE LengthScan(_, _, _)
LengthScan(packet_data, i, nal_types_found) ==
  LET data_len == Len(packet_data)
  IN IF ~(i < data_len - 4) THEN [ret |-> None, found |-> nal_types_found]
     ELSE IF \/ FromBytes(packet_data, i) < 2
             \/ FromBytes(packet_data, i) > data_len - i - 4
     THEN [ret |-> None, found |-> nal_types_found]
     ELSE IF i + 5 < data_len
     THEN IF NalTypeOf(packet_data[i + 5]) \in 16..20
          THEN [ret |-> Some(NalTypeOf(packet_data[i + 5])), found |-> nal_types_found]
          ELSE LengthScan(packet_data, i + 4 + FromBytes(packet_data, i),
                          Append(nal_types_found, NalTypeOf(packet_data[i + 5])))
     ELSE LengthScan(packet_data, i + 4 + FromBytes(packet_data, i), nal_types_found)

\* lines 63-85: the loop over the start codes from index pos
RECURSIVE AnnexBScan(_, _, _)
AnnexBScan(packet_data, pos, nal_types_found) ==
  LET data_len == Len(packet_data)
      idx4 == Find(packet_data, start_code_4, pos)
      idx3 == Find(packet_data, start_code_3, pos)
  IN IF ~(pos < data_len - 5) THEN [ret |-> None, found |-> nal_types_found]
     ELSE IF idx4 = -1 /\ idx3 = -1 THEN [ret |-> None, found |-> nal_types_found]
     ELSE IF idx4 # -1 /\ (idx3 = -1 \/ idx4 <= idx3)
     THEN IF idx4 + 6 <= data_len
          THEN IF NalTypeOf(packet_data[idx4 + 5]) \in 16..20
               THEN [ret |-> Some(NalTypeOf(packet_data[idx4 + 5])),
                     found |-> nal_types_found]
               ELSE AnnexBScan(packet_data, idx4 + 4,
                               Append(nal_types_found, NalTypeOf(packet_data[idx4 + 5])))
          ELSE AnnexBScan(packet_data, idx4 + 4, nal_types_found)
     ELSE IF idx3 + 5 <= data_len
          THEN IF NalTypeOf(packet_data[idx3 + 4]) \in 16..20
               THEN [ret |-> Some(NalTypeOf(packet_data[idx3 + 4])),
                     found |-> nal_types_found]
               ELSE AnnexBScan(packet_data, idx3 + 3,
                               Append(nal_types_found, NalTypeOf(packet_data[idx3 + 4])))
          ELSE AnnexBScan(packet_data, idx3 + 3, nal_types_found)

\* lines 57-103: the start codes, after the scan r of them
AnnexB(r) ==
  IF r.ret # None THEN r.ret
  ELSE IF r.found # <<>> THEN Prioritise(r.found)
  ELSE None

\* lines 28-55: the lengths, after the scan r of them; a packet in which
\* the scan read no NAL type is scanned for start codes
LengthPrefixed(packet_data, r) ==
  IF r.ret # None THEN r.ret
  ELSE IF r.found # <<>> THEN Prioritise(r.found)
  ELSE AnnexB(AnnexBScan(packet_data, 0, <<>>))

\* line 27 if it took every first length within the packet for a length
FirstLengthValid_AnyLength(packet_data) ==
  FromBytes(packet_data, 0) > 1 /\ FromBytes(packet_data, 0) <= Len(packet_data) - 4

\* if nal_length > 4 and nal_length <= data_len - 4
FirstLengthValid(packet_data) ==
  FromBytes(packet_data, 0) > 4 /\ FromBytes(packet_data, 0) <= Len(packet_data) - 4

get_h265_nal_unit_type(packet_data) ==
  IF Len(packet_data) < 6 THEN None
  ELSE IF FirstLengthValid(packet_data)
  THEN LengthPrefixed(packet_data, LengthScan(packet_data, 0, <<>>))
  ELSE AnnexB(AnnexBScan(packet_data, 0, <<>>))

NalInit ==
  /\ \E nals \in NalLists, framing \in Framings :
       call = [op |-> "demuxed", nals |-> nals, framing |-> framing,
               packet_data |-> PacketData(nals, 1, framing), nal_type |-> None]
  /\ cut_pc = "classify"
  /\ source = <<>> /\ video_cutter = <<>> /\ returned = <<>>
  /\ prev_dts = <<>> /\ copied_before = <<>> /\ run = <<>>
  /\ media_container = <<>>
  /\ PlanIdle /\ DriverIdle /\ SideIdle

\* media_container.py, lines 125-126: nal_type = get_h265_nal_unit_type(bytes(packet))
Classify ==
  /\ cut_pc = "classify"
  /\ call.op = "demuxed"
  /\ call' = [call EXCEPT !.op = "get_h265_nal_unit_type",
                          !.nal_type = get_h265_nal_unit_type(call.packet_data)]
  /\ UNCHANGED <<source, video_cutter, returned, prev_dts, copied_before, run, cut_pc,
                 planVars, driveVars, sideVars>>

NalNext == Classify

SpecNal == NalInit /\ [][NalNext]_vars

\* the value the sequence of NAL types asks for: the first of 16..20, else
\* 21, else the first of 0..15, else the first of 32..40
ByPriority(nals) ==
  LET n == Len(nals)
      FirstOf(S) == LET at == {j \in 1..n : nals[j].type \in S}
                  IN nals[CHOOSE j \in at : \A x \in at : j <= x].type
      HasOf(S) == \E j \in 1..n : nals[j].type \in S
  IN IF HasOf(16..20) THEN Some(FirstOf(16..20))
     ELSE IF HasOf({21}) THEN Some(21)
     ELSE IF HasOf(0..15) THEN Some(FirstOf(0..15))
     ELSE IF HasOf(32..40) THEN Some(FirstOf(32..40))
     ELSE None

Classified == call.op = "get_h265_nal_unit_type"

\* C40: for an H.265 packet of several NAL units, framed with lengths or
\* with start codes, get_h265_nal_unit_type returns the first BLA or IDR
\* type (16..20) of the packet if it has one, else CRA (21) if it has one,
\* else its first picture type in 0..15, else its first metadata type
\* (32..40): the value follows from the NAL types alone, whatever the
\* framing.
C40_NalTypeByPriorityWhateverTheFraming ==
  Classified => call.nal_type = ByPriority(call.nals)

\* The same for the packets framed with start codes, and for those framed
\* with lengths whose first unit is longer than four bytes.
NalTypeByPriorityUnlessShortFirstLength ==
  (Classified /\ (call.framing = "length" => call.nals[1].len > 4)) =>
    call.nal_type = ByPriority(call.nals)

\* a CRA after a parameter set, framed with lengths and with start codes
NalTypeByPriorityReached ==
  /\ Classified /\ Len(call.nals) = 2
  /\ call.nals[1].type = 32 /\ call.nals[2].type = 21
  /\ call.nal_type = Some(21)

====
